---- MODULE Spec2Model ----
(***************************************************************************)
(* Layout-inference pipeline of the accessible PDF converter.              *)
(*                                                                         *)
(*   src/lib/extract-script.mjs   detectColumns, detectTable,              *)
(*                                detectFigures, detectMathEquations,      *)
(*                                createReadingOrder, buildStructuredText, *)
(*                                extract                                  *)
(*   src/app/api/analyze/route.ts POST (document-wide font statistics)     *)
(*   src/unnamed/part_003         determineHeadingLevel and the two        *)
(*                                versions of processDocumentStructure     *)
(*                                                                         *)
(* Numbers.  Every numeric token field is rounded to one decimal by the    *)
(* normalizer, so lengths and font sizes are integers counted in tenths    *)
(* of a unit: x = 1000 is x = 100.0, and the 5-unit row tolerance is 50.   *)
(*                                                                         *)
(* Strings.  A string is a sequence of pieces.  Piece 0 is one blank;      *)
(* piece w > 0 is word w of the dictionary Words, an opaque run of         *)
(* WordLen(w) characters without leading or trailing white space.          *)
(* trim(), length, concatenation and toUpperCase() are computed on that    *)
(* representation.                                                         *)
(***************************************************************************)
EXTENDS Integers, Sequences, FiniteSets, TLC

VARIABLES
    items,      \* the token list of the page under analysis
    columns,    \* the Column list detected for the page
    table,      \* what detectTable returned for the page
    ordered,    \* what createReadingOrder returned for the page
    doc,        \* the DocumentData record the reader page loaded
    content,    \* the StructuredContent list being assembled
    pageIdx,    \* number of pages of doc already structured
    heading,    \* the token, thresholds and level of a heading scoring
    stats,      \* font statistics of the analyze route
    pc,         \* position of the active routine
    equations,        \* the Equation list of detectMathEquations
    currentEquation,  \* the tokens of the open span
    equationStartY,   \* the y of the open span, NullY when there is none
    itemIndex,        \* number of tokens the detector's loop has visited
    pdf,        \* the text content of the uploaded document, page by page
    calls,      \* the detector invocations of the extraction, in order
    figureList,    \* figures: the Figure list of detectFigures
    pendingX,      \* the part of uniqueX still to be clustered
    clusterList,   \* clusters: the clusters of detectColumns
    textSoFar,     \* pageText: what buildStructuredText has built so far
    status,        \* the status message of the upload page
    file_name,     \* the stored file name the upload answered
    meta_data,     \* the analysis the upload page keeps
    isProcessing,  \* whether the dropzone is disabled
    flow           \* the file of the running onDrop and the servers' answers

mathVars == <<equations, currentEquation, equationStartY, itemIndex>>

extractVars == <<pdf, calls>>

layoutVars == <<figureList, pendingX, clusterList, textSoFar>>

uploadVars == <<status, file_name, meta_data, isProcessing, flow>>

vars == <<items, columns, table, ordered, doc, content, pageIdx, heading, stats,
          pc, mathVars, extractVars, layoutVars, uploadVars>>

\* No y yet: equationStartY = null.  Token positions are never negative.
NullY == -1

\* The equation detector at rest.
NoDetection ==
    /\ equations = <<>>
    /\ currentEquation = <<>>
    /\ equationStartY = NullY
    /\ itemIndex = 0

\* No document under extraction.
NoExtraction ==
    /\ pdf = <<>>
    /\ calls = <<>>

\* No figure, cluster or page text under construction.
NoLayout ==
    /\ figureList = <<>>
    /\ pendingX = <<>>
    /\ clusterList = <<>>
    /\ textSoFar = <<>>

\* The upload page as it is mounted (useState initial values, lines 8-12).
NoUpload ==
    /\ status = [kind |-> "empty"]
    /\ file_name = "null"
    /\ meta_data = [type |-> "null"]
    /\ isProcessing = FALSE
    /\ flow = [type |-> "none"]

-----------------------------------------------------------------------------
(* Strings *)

Blank == 0

\* The dictionary: length of each word and whether toUpperCase() leaves it
\* unchanged.
Words ==
    <<[len |-> 2,   upper |-> FALSE],    \* 1  "ab"
      [len |-> 4,   upper |-> FALSE],    \* 2  "Cell"
      [len |-> 5,   upper |-> TRUE],     \* 3  "TOTAL"
      [len |-> 9,   upper |-> FALSE],    \* 4  "Chapter 1"
      [len |-> 59,  upper |-> FALSE],    \* 5
      [len |-> 60,  upper |-> FALSE],    \* 6
      [len |-> 120, upper |-> FALSE],    \* 7
      [len |-> 121, upper |-> FALSE],    \* 8
      [len |-> 121, upper |-> TRUE],     \* 9
      [len |-> 3,   upper |-> FALSE],    \* 10 "abc"
      [len |-> 4,   upper |-> TRUE],     \* 11 "NOTE"
      [len |-> 1,   upper |-> TRUE],     \* 12 the summation sign
      [len |-> 3,   upper |-> FALSE],    \* 13 "i=1"
      [len |-> 1,   upper |-> FALSE],    \* 14 "n"
      [len |-> 1,   upper |-> TRUE],     \* 15 "-"
      [len |-> 1,   upper |-> TRUE],     \* 16 the bullet sign
      [len |-> 8,   upper |-> FALSE],    \* 17 "Figure 1"
      [len |-> 1,   upper |-> TRUE],     \* 18 the line feed
      [len |-> 1,   upper |-> TRUE],     \* 19 "|"
      [len |-> 1,   upper |-> TRUE]>>    \* 20 "1"

WordLen(w) == IF w = Blank THEN 1 ELSE Words[w].len

WordUpper(w) == IF w = Blank THEN TRUE ELSE Words[w].upper

RECURSIVE StrLen(_)
StrLen(s) == IF s = <<>> THEN 0 ELSE WordLen(Head(s)) + StrLen(Tail(s))

RECURSIVE TrimStart(_)
TrimStart(s) ==
    IF s # <<>> /\ Head(s) = Blank THEN TrimStart(Tail(s)) ELSE s

RECURSIVE TrimEnd(_)
TrimEnd(s) ==
    IF s # <<>> /\ s[Len(s)] = Blank
    THEN TrimEnd(SubSeq(s, 1, Len(s) - 1))
    ELSE s

Trim(s) == TrimEnd(TrimStart(s))

IsUpperCase(s) == \A i \in 1..Len(s) : WordUpper(s[i])

Abs(n) == IF n < 0 THEN -n ELSE n

\* Math.round of the quotient num / den of two naturals, den > 0.
RoundDiv(num, den) == (2 * num + den) \div (2 * den)

RECURSIVE SumSeq(_)
SumSeq(s) == IF s = <<>> THEN 0 ELSE Head(s) + SumSeq(Tail(s))

Reverse(s) == [i \in 1..Len(s) |-> s[Len(s) + 1 - i]]

-----------------------------------------------------------------------------
(* Comparator callbacks *)

\* The comparator with its operands exchanged.
byXReversed(a, b) == b.x - a.x

\* (a, b) => a.x - b.x
byX(a, b) == a.x - b.x

sameLine == 50

\* (a, b) => |a.y - b.y| < 5 ? a.x - b.x : b.y - a.y
byReadingOrder(a, b) ==
    IF Abs(a.y - b.y) < sameLine THEN a.x - b.x ELSE b.y - a.y

\* (a, b) => a.center - b.center, the center of a cluster being the mean of
\* its positions: the sign of the difference, cleared of the divisions.
byCenter(a, b) ==
    SumSeq(a.positions) * Len(b.positions)
        - SumSeq(b.positions) * Len(a.positions)

Compare(cmp, a, b) ==
    CASE cmp = "byX" -> byX(a, b)
      [] cmp = "byReadingOrder" -> byReadingOrder(a, b)
      [] cmp = "byCenter" -> byCenter(a, b)

-----------------------------------------------------------------------------
(* Array.prototype.sort as the script's runtime performs it on an array    *)
(* shorter than 64 elements: the leading run is found (and reversed when   *)
(* strictly descending), and the remaining elements are placed by binary   *)
(* insertion.  The sort is stable; cmp names the comparator callback.     *)

ArraySort(arr, cmp) ==
    LET n == Len(arr)
        descending == Compare(cmp, arr[2], arr[1]) < 0
        RECURSIVE RunEnd(_)
        RunEnd(idx) ==
            IF idx > n THEN n
            ELSE LET order == Compare(cmp, arr[idx], arr[idx - 1])
                 IN  IF descending
                     THEN IF order >= 0 THEN idx - 1 ELSE RunEnd(idx + 1)
                     ELSE IF order < 0 THEN idx - 1 ELSE RunEnd(idx + 1)
        runLength == RunEnd(3)
        withRun == IF descending
                   THEN Reverse(SubSeq(arr, 1, runLength))
                            \o SubSeq(arr, runLength + 1, n)
                   ELSE arr
        RECURSIVE Search(_, _, _, _)
        Search(a, pivot, left, right) ==
            IF left >= right THEN left
            ELSE LET mid == left + ((right - left) \div 2)
                 IN  IF Compare(cmp, pivot, a[mid]) < 0
                     THEN Search(a, pivot, left, mid)
                     ELSE Search(a, pivot, mid + 1, right)
        RECURSIVE Insert(_, _)
        Insert(a, start) ==
            IF start > n THEN a
            ELSE LET pivot == a[start]
                     left == Search(a, pivot, 1, start)
                 IN  Insert(SubSeq(a, 1, left - 1) \o <<pivot>>
                                \o SubSeq(a, left, start - 1)
                                \o SubSeq(a, start + 1, n),
                            start + 1)
    IN  IF n < 2 THEN arr ELSE Insert(withRun, runLength + 1)

-----------------------------------------------------------------------------
(* detectTable *)

yTolerance == 50

NullTable == [type |-> "null", rows |-> <<>>]

meaningfulItems(its) ==
    SelectSeq(its, LAMBDA item :
        StrLen(Trim(item.text)) > 0 /\ item.width > 50 /\ item.fontSize > 80)

\* The rows of rowMap in insertion order, each with the y that keys it.
RECURSIVE rowMap(_, _)
rowMap(its, map) ==
    IF its = <<>> THEN map
    ELSE LET item == Head(its)
             hits == {k \in 1..Len(map) : Abs(map[k].yKey - item.y) < yTolerance}
         IN  IF hits # {}
             THEN LET k == CHOOSE h \in hits : \A g \in hits : h <= g
                  IN  rowMap(Tail(its),
                        [map EXCEPT ![k].rowItems = Append(@, item)])
             ELSE rowMap(Tail(its),
                        Append(map, [yKey |-> item.y, rowItems |-> <<item>>]))

rowsOf(its) ==
    LET map == rowMap(meaningfulItems(its), <<>>)
    IN  [k \in 1..Len(map) |-> map[k].rowItems]

substantialCells(row) ==
    SelectSeq(row, LAMBDA item : StrLen(Trim(item.text)) > 3)

tableRows(its) ==
    SelectSeq(rowsOf(its), LAMBDA row :
        Len(substantialCells(row)) >= 2 /\ Len(substantialCells(row)) <= 4)

\* tableRows after line 105 has sorted every row in place.
sortedRows(its) ==
    LET tr == tableRows(its)
    IN  [k \in 1..Len(tr) |-> ArraySort(tr[k], "byX")]

columnCounts(rows) == [k \in 1..Len(rows) |-> Len(rows[k])]

numColumns(rows) == RoundDiv(SumSeq(columnCounts(rows)), Len(rows))

\* Column counts compared with the rounded mean up to one cell.
hasRoughlyConsistentColumns(rows) ==
    \A k \in 1..Len(rows) : Abs(Len(rows[k]) - numColumns(rows)) <= 1

hasConsistentColumns(rows) ==
    \A k \in 1..Len(rows) : Len(rows[k]) = numColumns(rows)

\* The alignment test with a tolerance of 40 units.
columnsAlignLoosely(rows) ==
    \A k \in 1..Len(rows) : \A col \in 1..Len(rows[k]) :
        LET having == {j \in 1..Len(rows) : Len(rows[j]) >= col}
            xs == [j \in 1..Len(rows) |->
                      IF j \in having THEN rows[j][col].x ELSE 0]
        IN  Abs(rows[k][col].x * Cardinality(having) - SumSeq(xs))
                < 400 * Cardinality(having)

\* |x - avgX| < 30 with avgX the mean of column col over the rows that have
\* it, cleared of the division.
columnsAlign(rows) ==
    \A k \in 1..Len(rows) : \A col \in 1..Len(rows[k]) :
        LET having == {j \in 1..Len(rows) : Len(rows[j]) >= col}
            xs == [j \in 1..Len(rows) |->
                      IF j \in having THEN rows[j][col].x ELSE 0]
        IN  Abs(rows[k][col].x * Cardinality(having) - SumSeq(xs))
                < 300 * Cardinality(having)

buildRows(rows) ==
    [k \in 1..Len(rows) |->
        [cells |-> ArraySort(
            SelectSeq(rows[k], LAMBDA item : StrLen(Trim(item.text)) > 0),
            "byX")]]

MinItems == 8

\* The row threshold before it was raised.
MinTableRowsBefore == 3

MinTableRows == 5

detectTable(its) ==
    LET rows == sortedRows(its)
    IN  IF Len(its) < MinItems THEN NullTable
        ELSE IF Len(tableRows(its)) < MinTableRows THEN NullTable
        ELSE IF ~hasConsistentColumns(rows) THEN NullTable
        ELSE IF ~columnsAlign(rows) THEN NullTable
        ELSE [type |-> "table", rows |-> buildRows(rows)]

-----------------------------------------------------------------------------
(* Pages handed to detectTable: grids of rows 20 units apart and columns   *)
(* 150 units apart, with up to two rows that depart from the grid, in      *)
(* several token orders.                                                    *)

MaxRows == 5

MaxCols == 4

Idle == [type |-> "idle"]

Tok(text, x, y, width, fontSize) ==
    [text |-> text, x |-> x, y |-> y, width |-> width, height |-> 100,
     fontSize |-> fontSize, fontName |-> "Helvetica"]

ColX(c) == 1000 + 1500 * (c - 1)

RowY(r) == 7000 - 200 * (r - 1)

GridCell(r, c) == Tok(<<2>>, ColX(c), RowY(r), 400, 100)

Shapes ==
    {"full", "short", "less", "more", "blank", "thin", "tiny",
     "shift30", "shift37", "shift40", "dip4", "dip6"}

RowCells(r, C, shape) ==
    LET full == [c \in 1..C |-> GridCell(r, c)]
    IN  CASE shape = "full"    -> full
          [] shape = "short"   -> [full EXCEPT ![C].text = <<Blank, 1>>]
          [] shape = "less"    -> SubSeq(full, 1, C - 1)
          [] shape = "more"    -> Append(full, GridCell(r, C + 1))
          [] shape = "blank"   ->
                Append(full, Tok(<<Blank, Blank>>, ColX(C + 1), RowY(r), 400, 100))
          [] shape = "thin"    -> [full EXCEPT ![C].width = 50]
          [] shape = "tiny"    -> [full EXCEPT ![C].fontSize = 80]
          [] shape = "shift30" -> [full EXCEPT ![1].x = @ + 300]
          [] shape = "shift37" -> [full EXCEPT ![1].x = @ + 375]
          [] shape = "shift40" -> [full EXCEPT ![1].x = @ + 400]
          [] shape = "dip4"    -> [full EXCEPT ![1].y = @ - 40]
          [] shape = "dip6"    -> [full EXCEPT ![1].y = @ - 60]

RECURSIVE Flatten(_)
Flatten(ss) == IF ss = <<>> THEN <<>> ELSE Head(ss) \o Flatten(Tail(ss))

\* The c-th cells of the rows that have one, row after row.
Column(rows, c) ==
    Flatten([k \in 1..Len(rows) |->
                IF Len(rows[k]) >= c THEN <<rows[k][c]>> ELSE <<>>])

\* The tokens of the rows listed row by row, or column by column.
Page(rows, colMajor) ==
    IF colMajor
    THEN Flatten([c \in 1..(MaxCols + 1) |-> Column(rows, c)])
    ELSE Flatten(rows)

RowOrders(n) ==
    {p \in [1..n -> 1..n] : \A i, j \in 1..n : p[i] = p[j] => i = j}

GridRows(R, C, shapeOf, rowOrder, cellRev) ==
    [k \in 1..R |->
        LET cells == RowCells(rowOrder[k], C, shapeOf[rowOrder[k]])
        IN  IF cellRev THEN Reverse(cells) ELSE cells]

\* Perfect grids in every order of their rows.
PerfectPages(maxRows, maxCols) ==
    {Page(GridRows(R, C, [r \in 1..R |-> "full"], rowOrder, cellRev), colMajor) :
        <<R, C, rowOrder, cellRev, colMajor>> \in
            UNION {{<<R, C, p, b1, b2>> :
                        p \in RowOrders(R), b1 \in BOOLEAN, b2 \in BOOLEAN} :
                   <<R, C>> \in (4..maxRows) \X (1..maxCols)}}

\* Grids in which row d and the bottom row take the shapes s1 and s2, top row
\* first or bottom row first, row by row or (cells reversed) column by column.
DefectPages(maxRows, maxCols) ==
    {Page(GridRows(q[1], q[2],
                   [r \in 1..q[1] |-> IF r = q[3] THEN q[5]
                                      ELSE IF r = q[4] THEN q[6] ELSE "full"],
                   IF q[7] THEN [k \in 1..q[1] |-> q[1] + 1 - k]
                           ELSE [k \in 1..q[1] |-> k],
                   q[8]), q[8]) :
        q \in UNION {{t \in {R} \X (2..maxCols) \X (1..R) \X (1..R)
                              \X Shapes \X Shapes \X BOOLEAN \X BOOLEAN :
                         t[4] = R} : R \in 4..maxRows}}

-----------------------------------------------------------------------------
(* The table detector applied to one page (extract, line 468). *)

InitTable ==
    /\ NoDetection
    /\ NoExtraction
    /\ NoLayout
    /\ NoUpload
    /\ items \in PerfectPages(MaxRows, MaxCols) \cup DefectPages(MaxRows, MaxCols)
    /\ columns = <<>>
    /\ table = Idle
    /\ ordered = <<>>
    /\ doc = Idle
    /\ content = <<>>
    /\ pageIdx = 0
    /\ heading = Idle
    /\ stats = Idle
    /\ pc = "detectTable"

DetectTable ==
    /\ pc = "detectTable"
    /\ table' = detectTable(items)
    /\ pc' = "done"
    /\ UNCHANGED <<items, columns, ordered, doc, content, pageIdx, heading,
                   stats, mathVars, extractVars,
                   layoutVars, uploadVars>>

NextTable == DetectTable

SpecTable == InitTable /\ [][NextTable]_vars

-----------------------------------------------------------------------------
(* determineHeadingLevel *)

\* The font names of the model; the heavy ones contain "bold", "black" or
\* "heavy" once lower-cased.
FontNames == {"Helvetica", "Times-Roman", "Arial-Bold", "Gill-HEAVY"}

isHeavyFont(fontName) == fontName \in {"Arial-Bold", "Gill-HEAVY"}

\* The bands with the two middle thresholds exchanged.
baseLevelExchanged(fontSize, body_font_threshold) ==
    IF 10 * fontSize >= 18 * body_font_threshold THEN 1
    ELSE IF 10 * fontSize >= 11 * body_font_threshold THEN 2
    ELSE IF 10 * fontSize >= 14 * body_font_threshold THEN 3
    ELSE 0

\* ratio = fontSize / body_font_threshold against 1.8, 1.4 and 1.1.
baseLevel(fontSize, body_font_threshold) ==
    IF 10 * fontSize >= 18 * body_font_threshold THEN 1
    ELSE IF 10 * fontSize >= 14 * body_font_threshold THEN 2
    ELSE IF 10 * fontSize >= 11 * body_font_threshold THEN 3
    ELSE 0

styleScore(item) == IF isHeavyFont(item.fontName) THEN 1 ELSE 0

upperScore(item) ==
    IF IsUpperCase(Trim(item.text)) /\ StrLen(Trim(item.text)) > 3 THEN 1 ELSE 0

\* |text_center - page_center| < page_width * 0.1, with
\* text_center = x + length * fontSize * 0.5, cleared of the fractions.
layoutScore(item, page_width) ==
    IF 5 * Abs(2 * item.x + StrLen(Trim(item.text)) * item.fontSize - page_width)
           < page_width
    THEN 1 ELSE 0

lengthScore(item) == IF StrLen(Trim(item.text)) < 60 THEN 1 ELSE 0

headingScore(item, page_width) ==
    styleScore(item) + upperScore(item) + layoutScore(item, page_width)
        + lengthScore(item)

determineHeadingLevel(item, body_font_threshold, page_width) ==
    LET level == baseLevel(item.fontSize, body_font_threshold)
        score == headingScore(item, page_width)
        refined == IF score >= 2 /\ level = 0 THEN 3 ELSE level
    IN  IF StrLen(Trim(item.text)) > 120 THEN 0 ELSE refined

-----------------------------------------------------------------------------
(* Calls of determineHeadingLevel, one after the other, on arbitrary        *)
(* tokens and thresholds.                                                   *)

DefaultPageWidth == 6000

HeadingTexts ==
    {<<4>>, <<Blank, 3>>, <<10>>, <<5>>, <<6, Blank>>, <<7>>, <<8>>, <<9>>}

HeadingSizes == {120, 130, 132, 140, 168, 180, 216, 240}

HeadingTokens ==
    {[text |-> t, x |-> x, y |-> 7000, width |-> 900, height |-> 100,
      fontSize |-> f, fontName |-> n] :
        t \in HeadingTexts, x \in {720, 2800}, f \in HeadingSizes,
        n \in {"Helvetica", "Arial-Bold"}}

BodySizes == {100, 120}

HeadingCalls ==
    [item : HeadingTokens, body : BodySizes, pageWidth : {DefaultPageWidth},
     level : {-1}]

InitHeading ==
    /\ NoDetection
    /\ NoExtraction
    /\ NoLayout
    /\ NoUpload
    /\ heading \in HeadingCalls
    /\ items = <<>>
    /\ columns = <<>>
    /\ table = Idle
    /\ ordered = <<>>
    /\ doc = Idle
    /\ content = <<>>
    /\ pageIdx = 0
    /\ stats = Idle
    /\ pc = "determineHeadingLevel"

\* The pending call returns.
ScoreHeading ==
    /\ pc = "determineHeadingLevel"
    /\ heading.level = -1
    /\ heading' = [heading EXCEPT !.level =
           determineHeadingLevel(heading.item, heading.body, heading.pageWidth)]
    /\ UNCHANGED <<items, columns, table, ordered, doc, content, pageIdx,
                   stats, pc, mathVars, extractVars,
                   layoutVars, uploadVars>>

\* The next call, on another token or against another body font size.
ScoreNextHeading ==
    /\ pc = "determineHeadingLevel"
    /\ heading.level # -1
    /\ \E call \in HeadingCalls :
          heading' = [call EXCEPT !.level =
              determineHeadingLevel(call.item, call.body, call.pageWidth)]
    /\ UNCHANGED <<items, columns, table, ordered, doc, content, pageIdx,
                   stats, pc, mathVars, extractVars,
                   layoutVars, uploadVars>>

NextHeading == ScoreHeading \/ ScoreNextHeading

SpecHeading == InitHeading /\ [][NextHeading]_vars

-----------------------------------------------------------------------------
(* processDocumentStructure, token by token (part_003 lines 197-316) *)

ScannedNotice ==
    [type |-> "paragraph", text |-> <<3, Blank, 3>>, pageNumber |-> 0]

Paragraph(text, pageNumber) ==
    [type |-> "paragraph", text |-> Trim(text), pageNumber |-> pageNumber]

\* The assignment in place of the accumulation.
overwriteText(currentText, text) == text

\* currentText += (currentText ? " " : "") + text
appendText(currentText, text) ==
    currentText \o (IF currentText # <<>> THEN <<Blank>> ELSE <<>>) \o text

paragraphGap == 150

\* One pass of sortedItems.forEach from position index, then the flush of
\* the remaining text.
RECURSIVE structureItems(_, _, _, _, _, _)
structureItems(sortedItems, index, data, pageNumber, out, currentText) ==
    IF index > Len(sortedItems)
    THEN IF Trim(currentText) # <<>>
         THEN Append(out, Paragraph(currentText, pageNumber))
         ELSE out
    ELSE
      LET item == sortedItems[index]
          text == Trim(item.text)
      IN  IF text = <<>>
          THEN structureItems(sortedItems, index + 1, data, pageNumber,
                              out, currentText)
          ELSE IF item.fontSize > data.body_font_size /\ StrLen(text) > 3
          THEN LET flushed == IF currentText # <<>>
                              THEN Append(out, Paragraph(currentText, pageNumber))
                              ELSE out
                   level == determineHeadingLevel(item, data.body_font_size,
                                                  data.maxFontSize)
               IN  structureItems(sortedItems, index + 1, data, pageNumber,
                       Append(flushed,
                              [type |-> "heading", text |-> text,
                               level |-> level, fontSize |-> item.fontSize,
                               pageNumber |-> pageNumber]),
                       <<>>)
          ELSE LET joined == appendText(currentText, text)
                   last == index = Len(sortedItems)
                   ends == \/ last
                           \/ Abs(sortedItems[index + 1].y - item.y)
                                  > paragraphGap
               IN  IF ends /\ Trim(joined) # <<>>
                   THEN structureItems(sortedItems, index + 1, data, pageNumber,
                            Append(out, Paragraph(joined, pageNumber)), <<>>)
                   ELSE structureItems(sortedItems, index + 1, data, pageNumber,
                            out, joined)

\* The table, the figures and the equations of the page, in that order.
\* The extras with the equations pushed before the figures.
pageExtrasEquationsFirst(page) ==
    (IF page.hasTable /\ page.table # NullTable
     THEN <<[type |-> "table", pageNumber |-> page.pageNumber,
             table |-> page.table]>>
     ELSE <<>>)
    \o [k \in 1..Len(page.equations) |->
           [type |-> "equation", pageNumber |-> page.pageNumber,
            equation |-> page.equations[k], equationIndex |-> k - 1]]
    \o [k \in 1..Len(page.figures) |->
           [type |-> "figure", pageNumber |-> page.pageNumber,
            figure |-> page.figures[k]]]

pageExtras(page) ==
    (IF page.hasTable /\ page.table # NullTable
     THEN <<[type |-> "table", pageNumber |-> page.pageNumber,
             table |-> page.table]>>
     ELSE <<>>)
    \o [k \in 1..Len(page.figures) |->
           [type |-> "figure", pageNumber |-> page.pageNumber,
            figure |-> page.figures[k]]]
    \o [k \in 1..Len(page.equations) |->
           [type |-> "equation", pageNumber |-> page.pageNumber,
            equation |-> page.equations[k], equationIndex |-> k - 1]]

\* The structurer pushing a paragraph, empty if need be, for a page that
\* gave no text item.
structurePageNeverEmpty(data, page) ==
    LET out == structureItems(ArraySort(page.items, "byReadingOrder"), 1,
                              data, page.pageNumber, <<>>, <<>>)
    IN  (IF out = <<>> THEN <<Paragraph(<<>>, page.pageNumber)>> ELSE out)
            \o pageExtras(page)

structurePage(data, page) ==
    structureItems(ArraySort(page.items, "byReadingOrder"), 1, data,
                   page.pageNumber, <<>>, <<>>)
        \o pageExtras(page)

-----------------------------------------------------------------------------
(* processDocumentStructure, line by line (part_003 lines 1077-1262) *)

RECURSIVE joinTexts(_)
joinTexts(its) ==
    IF its = <<>> THEN <<>>
    ELSE IF Len(its) = 1 THEN its[1].text
    ELSE its[1].text \o <<Blank>> \o joinTexts(Tail(its))

RECURSIVE maxOf(_)
maxOf(ns) ==
    IF Len(ns) = 1 THEN ns[1]
    ELSE LET m == maxOf(Tail(ns)) IN IF ns[1] >= m THEN ns[1] ELSE m

\* avgFontSize is kept as the sum of the sizes and their number.
makeLine(currentLine, currentY) ==
    [items |-> currentLine,
     y |-> currentY,
     sumFontSize |-> SumSeq([k \in 1..Len(currentLine) |-> currentLine[k].fontSize]),
     maxFontSize |-> maxOf([k \in 1..Len(currentLine) |-> currentLine[k].fontSize]),
     text |-> Trim(joinTexts(currentLine))]

RECURSIVE groupLines(_, _, _, _, _)
groupLines(sortedItems, index, lines, currentLine, currentY) ==
    IF index > Len(sortedItems)
    THEN IF currentLine # <<>>
         THEN Append(lines, makeLine(currentLine, currentY))
         ELSE lines
    ELSE
      LET item == sortedItems[index]
      IN  IF Trim(item.text) = <<>>
          THEN groupLines(sortedItems, index + 1, lines, currentLine, currentY)
          ELSE IF index = 1 \/ Abs(item.y - currentY) < sameLine
          THEN groupLines(sortedItems, index + 1, lines,
                          Append(currentLine, item), currentY)
          ELSE groupLines(sortedItems, index + 1,
                          IF currentLine # <<>>
                          THEN Append(lines, makeLine(currentLine, currentY))
                          ELSE lines,
                          <<item>>, item.y)

\* reduce((max, item) => item.fontSize > max.fontSize ? item : max)
RECURSIVE representativeItem(_, _)
representativeItem(its, max) ==
    IF its = <<>> THEN max
    ELSE representativeItem(Tail(its),
             IF Head(its).fontSize > max.fontSize THEN Head(its) ELSE max)

RECURSIVE structureLines(_, _, _, _, _, _)
structureLines(lines, index, data, page, out, currentParagraph) ==
    IF index > Len(lines)
    THEN IF Trim(currentParagraph) # <<>>
         THEN Append(out, Paragraph(currentParagraph, page.pageNumber))
         ELSE out
    ELSE
      LET line == lines[index]
          isLargeFont == line.maxFontSize > data.body_font_size
          hasMinLength == StrLen(line.text) >= 3
          notTooLong == StrLen(line.text) < 120
      IN  IF isLargeFont /\ hasMinLength /\ notTooLong
          THEN LET flushed ==
                       IF Trim(currentParagraph) # <<>>
                       THEN Append(out, Paragraph(currentParagraph, page.pageNumber))
                       ELSE out
                   \* a blank paragraph is kept open, not reset
                   kept == IF Trim(currentParagraph) # <<>>
                           THEN <<>> ELSE currentParagraph
                   level == determineHeadingLevel(
                                representativeItem(Tail(line.items), line.items[1]),
                                data.body_font_size,
                                IF page.width # 0 THEN page.width
                                                  ELSE DefaultPageWidth)
               IN  structureLines(lines, index + 1, data, page,
                       Append(flushed,
                              [type |-> "heading", text |-> line.text,
                               level |-> level, fontSize |-> line.maxFontSize,
                               pageNumber |-> page.pageNumber]),
                       kept)
          ELSE LET joined == appendText(currentParagraph, line.text)
                   last == index = Len(lines)
                   ends == \/ last
                           \/ Abs(lines[index + 1].y - line.y) * Len(line.items)
                                  > line.sumFontSize * 2
               IN  IF ends /\ Trim(joined) # <<>>
                   THEN structureLines(lines, index + 1, data, page,
                            Append(out, Paragraph(joined, page.pageNumber)), <<>>)
                   ELSE structureLines(lines, index + 1, data, page, out, joined)

structurePageByLine(data, page) ==
    LET sortedItems == ArraySort(page.items, "byReadingOrder")
        firstY == IF sortedItems = <<>> THEN 0 ELSE sortedItems[1].y
    IN  structureLines(groupLines(sortedItems, 1, <<>>, <<>>, firstY),
                       1, data, page, <<>>, <<>>)
            \o pageExtras(page)

-----------------------------------------------------------------------------
(* Documents loaded by the reader page *)

MaxItems == 3

MaxPages == 2

TextTok(text, x, y, fontSize, fontName) ==
    [text |-> text, x |-> x, y |-> y, width |-> 900, height |-> 100,
     fontSize |-> fontSize, fontName |-> fontName]

\* Body text on one line, a line 10 units lower and a line 50 units lower;
\* a white-space token; headings of each kind; a large short token.
ReaderTokens ==
    {TextTok(<<2>>, 720, 7000, 120, "Helvetica"),
     TextTok(<<Blank, 1>>, 1700, 6998, 120, "Helvetica"),
     TextTok(<<5, Blank>>, 720, 6900, 120, "Times-Roman"),
     TextTok(<<2>>, 720, 6500, 120, "Helvetica"),
     TextTok(<<Blank, Blank>>, 720, 6800, 120, "Helvetica"),
     TextTok(<<4>>, 720, 7200, 240, "Arial-Bold"),
     TextTok(<<8>>, 720, 6700, 240, "Helvetica"),
     TextTok(<<6>>, 720, 6600, 130, "Helvetica"),
     TextTok(<<1>>, 2600, 6500, 240, "Helvetica")}

InjectiveSeqs(S, n) ==
    UNION {{q \in [1..k -> S] : \A i, j \in 1..k : q[i] = q[j] => i = j} :
           k \in 0..n}

SeqsUpTo(S, n) == UNION {[1..k -> S] : k \in 0..n}

NoExtras == [hasTable |-> FALSE, table |-> NullTable,
             figures |-> <<>>, equations |-> <<>>]

SomeExtras ==
    [hasTable |-> TRUE,
     table |-> [type |-> "table",
                rows |-> <<[cells |-> <<GridCell(1, 1), GridCell(1, 2)>>]>>],
     figures |-> <<[type |-> "figure", number |-> 1], [type |-> "figure", number |-> 2]>>,
     equations |-> <<[type |-> "equation", y |-> 5000],
                     [type |-> "equation", y |-> 4000]>>]

PageData(pageNumber, its, extras) ==
    [pageNumber |-> pageNumber, items |-> its, width |-> 6120,
     hasTable |-> extras.hasTable, table |-> extras.table,
     figures |-> extras.figures, equations |-> extras.equations]

\* The pages that follow the first one.
LaterPages ==
    {<<>>,
     <<TextTok(<<2>>, 720, 7000, 120, "Helvetica")>>,
     <<TextTok(<<2>>, 720, 6500, 120, "Helvetica"),
       TextTok(<<4>>, 720, 7200, 240, "Arial-Bold")>>}

DocumentData(isScanned, pages) ==
    [isScanned |-> isScanned, body_font_size |-> 120, maxFontSize |-> 240,
     pages |-> pages]

\* What the detectors may have left on a page: nothing; a table, two
\* figures and two equations; figures (the second one detected first) and
\* equations without a table.
ExtrasKinds ==
    {NoExtras, SomeExtras,
     [SomeExtras EXCEPT !.hasTable = FALSE, !.table = NullTable,
                        !.figures = Reverse(@)]}

\* Documents whose pages hold tokens and extras.
IllustratedDocuments(maxPages) ==
    {DocumentData(FALSE, [k \in 1..Len(q) |-> PageData(k, q[k][1], q[k][2])]) :
        q \in UNION {[1..n -> LaterPages \X ExtrasKinds] : n \in 1..maxPages}}

\* One page with one token of size 13 whose estimated center is 20 units
\* left of the middle of the page, or far left of it.
CenteredDocuments ==
    {DocumentData(FALSE,
         <<PageData(1, <<TextTok(<<2>>, x, 6600, 130, "Helvetica")>>,
                    NoExtras)>>) : x \in {2600, 720}}

Documents(maxItems, maxPages) ==
    {DocumentData(FALSE,
        [k \in 1..(1 + Len(later)) |->
            IF k = 1 THEN PageData(1, first, NoExtras)
                     ELSE PageData(k, later[k - 1], NoExtras)]) :
        first \in InjectiveSeqs(ReaderTokens, maxItems),
        later \in UNION {[1..n -> LaterPages] : n \in 0..(maxPages - 1)}}
    \cup
    {DocumentData(scanned, <<PageData(1, first, SomeExtras)>>) :
        scanned \in BOOLEAN, first \in InjectiveSeqs(ReaderTokens, 1)}
    \cup IllustratedDocuments(maxPages)
    \cup CenteredDocuments

InitStructure ==
    /\ NoDetection
    /\ NoExtraction
    /\ NoLayout
    /\ NoUpload
    /\ doc \in Documents(MaxItems, MaxPages)
    /\ pc \in {"structure", "structureByLine"}
    /\ content = <<>>
    /\ pageIdx = 0
    /\ items = <<>>
    /\ columns = <<>>
    /\ table = Idle
    /\ ordered = <<>>
    /\ heading = Idle
    /\ stats = Idle

\* if (data.isScanned) { content.push(notice); return content; }
StructureScanned ==
    /\ pc \in {"structure", "structureByLine"}
    /\ doc.isScanned
    /\ content' = <<ScannedNotice>>
    /\ pc' = "done"
    /\ UNCHANGED <<items, columns, table, ordered, doc, pageIdx, heading,
                   stats, mathVars, extractVars,
                   layoutVars, uploadVars>>

\* One turn of data.pages.forEach, token by token.
StructurePage ==
    /\ pc = "structure"
    /\ ~doc.isScanned
    /\ pageIdx < Len(doc.pages)
    /\ content' = content \o structurePage(doc, doc.pages[pageIdx + 1])
    /\ pageIdx' = pageIdx + 1
    /\ UNCHANGED <<items, columns, table, ordered, doc, heading, stats, pc,
                   mathVars, extractVars,
                   layoutVars, uploadVars>>

\* One turn of data.pages.forEach, line by line.
StructurePageByLine ==
    /\ pc = "structureByLine"
    /\ ~doc.isScanned
    /\ pageIdx < Len(doc.pages)
    /\ content' = content \o structurePageByLine(doc, doc.pages[pageIdx + 1])
    /\ pageIdx' = pageIdx + 1
    /\ UNCHANGED <<items, columns, table, ordered, doc, heading, stats, pc,
                   mathVars, extractVars,
                   layoutVars, uploadVars>>

\* return content
ReturnContent ==
    /\ pc \in {"structure", "structureByLine"}
    /\ ~doc.isScanned
    /\ pageIdx = Len(doc.pages)
    /\ pc' = "done"
    /\ UNCHANGED <<items, columns, table, ordered, doc, content, pageIdx,
                   heading, stats, mathVars, extractVars,
                   layoutVars, uploadVars>>

NextStructure ==
    StructureScanned \/ StructurePage \/ StructurePageByLine \/ ReturnContent

SpecStructure == InitStructure /\ [][NextStructure]_vars

-----------------------------------------------------------------------------
(* createReadingOrder *)

\* findIndex as it is, -1 when no band holds the center.
columnOfOrNone(item, cols) ==
    LET holding == {c \in 1..Len(cols) :
                       /\ (2 * item.x + item.width) * cols[c].scale
                              >= 2 * cols[c].startX
                       /\ (2 * item.x + item.width) * cols[c].scale
                              <= 2 * cols[c].endX}
    IN  IF holding = {} THEN -1
        ELSE (CHOOSE c \in holding : \A d \in holding : c <= d) - 1

\* findIndex of the first column whose band holds the token's horizontal
\* center x + width / 2, counted from 0; 0 when no band holds it.
\* A Column holds startX, endX and centerX as numerators over its scale (the
\* bounds are means of token positions).
columnOf(item, cols) ==
    LET holding == {c \in 1..Len(cols) :
                       /\ (2 * item.x + item.width) * cols[c].scale
                              >= 2 * cols[c].startX
                       /\ (2 * item.x + item.width) * cols[c].scale
                              <= 2 * cols[c].endX}
    IN  IF holding = {} THEN 0
        ELSE (CHOOSE c \in holding : \A d \in holding : c <= d) - 1

assignToColumns(its, cols) ==
    IF Len(cols) <= 1 THEN its
    ELSE [k \in 1..Len(its) |->
            [text |-> its[k].text, x |-> its[k].x, y |-> its[k].y,
             width |-> its[k].width, height |-> its[k].height,
             fontSize |-> its[k].fontSize, fontName |-> its[k].fontName,
             column |-> columnOf(its[k], cols)]]

\* Math.round(item.y / 5) * 5
roundedY(item) == ((2 * item.y + 50) \div 100) * 50

\* The distinct band values in the order sort((a, b) => b - a) leaves them.
RECURSIVE descending(_)
descending(S) ==
    IF S = {} THEN <<>>
    ELSE LET top == CHOOSE v \in S : \A u \in S : u <= v
         IN  <<top>> \o descending(S \ {top})

\* The column groups one after the other, without the merge by bands.
columnMajorOrder(its, cols) ==
    LET itemsWithColumns == assignToColumns(its, cols)
    IN  Flatten([i \in 1..Len(cols) |->
            ArraySort(SelectSeq(itemsWithColumns,
                                LAMBDA item : item.column = i - 1),
                      "byReadingOrder")])

multiColumnOrder(its, cols) ==
    LET itemsWithColumns == assignToColumns(its, cols)
        columnGroups ==
            [i \in 1..Len(cols) |->
                ArraySort(SelectSeq(itemsWithColumns,
                                    LAMBDA item : item.column = i - 1),
                          "byReadingOrder")]
        sortedYPositions ==
            descending({roundedY(itemsWithColumns[k]) :
                           k \in 1..Len(itemsWithColumns)})
    IN  Flatten([b \in 1..Len(sortedYPositions) |->
            Flatten([i \in 1..Len(cols) |->
                SelectSeq(columnGroups[i], LAMBDA item :
                    Abs(roundedY(item) - sortedYPositions[b]) < 20)])])

createReadingOrder(its, cols) ==
    IF Len(cols) <= 1
    THEN ArraySort(its, "byReadingOrder")
    ELSE multiColumnOrder(its, cols)

-----------------------------------------------------------------------------
(* The reading-order sequencer applied to one page (buildStructuredText,   *)
(* line 367).                                                               *)

PosTok(x, y) == TextTok(<<2>>, x, y, 120, "Helvetica")

\* Three lines 3 units apart and one line far below, at three left edges.
OrderTokens ==
    {PosTok(x, y) : x \in {720, 2000, 3300}, y \in {7000, 6970, 6940, 6500}}

LeftColumn == [startX |-> 520, endX |-> 2010, centerX |-> 720, scale |-> 1]

RightColumn ==
    [startX |-> 3100, endX |-> 6120, centerX |-> 3300, scale |-> 1]

ColumnLists == {<<>>, <<LeftColumn>>, <<LeftColumn, RightColumn>>}

InitOrder ==
    /\ NoDetection
    /\ NoExtraction
    /\ NoLayout
    /\ NoUpload
    /\ items \in InjectiveSeqs(OrderTokens, MaxItems)
    /\ columns \in ColumnLists
    /\ ordered = <<>>
    /\ table = Idle
    /\ doc = Idle
    /\ content = <<>>
    /\ pageIdx = 0
    /\ heading = Idle
    /\ stats = Idle
    /\ pc = "createReadingOrder"

\* With at most one column the page's own array is sorted in place and
\* returned; otherwise a new array is built and the page's array is kept.
CreateReadingOrder ==
    /\ pc = "createReadingOrder"
    /\ ordered' = createReadingOrder(items, columns)
    /\ items' = IF Len(columns) <= 1 THEN ordered' ELSE items
    /\ pc' = "done"
    /\ UNCHANGED <<columns, table, doc, content, pageIdx, heading, stats,
                   mathVars, extractVars,
                   layoutVars, uploadVars>>

NextOrder == CreateReadingOrder

SpecOrder == InitOrder /\ [][NextOrder]_vars

-----------------------------------------------------------------------------
(* detectMathEquations (extract-script.mjs lines 208-270)                   *)

\* Words holding a character of mathSymbols: the summation sign.
MathSymbolWords == {12}

\* Words that mathPatterns matches at their start: "i=1".
MathPatternWords == {13}

\* mathSymbols.test(text) || mathPatterns.test(text): a symbol anywhere in
\* the text, or a pattern at its start.  No word of the dictionary has a
\* subscript or superscript digit, and no two pieces together make a match.
hasMathSymbol(text) ==
    \/ \E i \in 1..Len(text) : text[i] \in MathSymbolWords
    \/ text # <<>> /\ text[1] \in MathPatternWords

\* The one-character words of the class [a-zA-Z0-9+\-*/=()[\]{}.,\s]:
\* the blank, "n", "-", the line feed and "1".
SafeCharacters == {Blank, 14, 15, 18, 20}

\* /^[a-zA-Z0-9+\-*/=()[\]{}.,\s]$/.test(text): the text is exactly one
\* character, and that character is of the class.
equationSafe(text) == Len(text) = 1 /\ text[1] \in SafeCharacters

bandHeight == 100

\* !equationStartY: null, and also the number 0.
unset(y) == y = NullY \/ y = 0

Equation(tokens, startY) ==
    [type |-> "equation", text |-> joinTexts(tokens), items |-> tokens,
     y |-> startY]

\* The loop body that takes every non-math token inside the band.
mathTokenAnyText(st, item) ==
    IF hasMathSymbol(item.text)
    THEN IF unset(st.startY) \/ Abs(item.y - st.startY) < bandHeight
         THEN [st EXCEPT !.current = Append(@, item),
                         !.startY = IF unset(@) THEN item.y ELSE @]
         ELSE [equations |-> IF Len(st.current) > 0
                             THEN Append(st.equations,
                                         Equation(st.current, st.startY))
                             ELSE st.equations,
               current |-> <<item>>,
               startY |-> item.y]
    ELSE IF Len(st.current) > 0
    THEN IF Abs(item.y - st.startY) < bandHeight
         THEN [st EXCEPT !.current = Append(@, item)]
         ELSE [equations |-> IF Len(st.current) >= 3
                             THEN Append(st.equations,
                                         Equation(st.current, st.startY))
                             ELSE st.equations,
               current |-> <<>>,
               startY |-> NullY]
    ELSE st

\* The body of items.forEach (lines 217-257) on the loop state
\* [equations, current, startY].
mathToken(st, item) ==
    IF hasMathSymbol(item.text)
    THEN IF unset(st.startY) \/ Abs(item.y - st.startY) < bandHeight
         THEN [st EXCEPT !.current = Append(@, item),
                         !.startY = IF unset(@) THEN item.y ELSE @]
         ELSE [equations |-> IF Len(st.current) > 0
                             THEN Append(st.equations,
                                         Equation(st.current, st.startY))
                             ELSE st.equations,
               current |-> <<item>>,
               startY |-> item.y]
    ELSE IF Len(st.current) > 0
    THEN IF /\ Abs(item.y - st.startY) < bandHeight
            /\ equationSafe(item.text)
         THEN [st EXCEPT !.current = Append(@, item)]
         ELSE [equations |-> IF Len(st.current) >= 3
                             THEN Append(st.equations,
                                         Equation(st.current, st.startY))
                             ELSE st.equations,
               current |-> <<>>,
               startY |-> NullY]
    ELSE st

\* "Add any remaining equation" (lines 259-267).
remainingEquation(st) ==
    IF Len(st.current) >= 3
    THEN Append(st.equations, Equation(st.current, st.startY))
    ELSE st.equations

RECURSIVE mathLoop(_, _)
mathLoop(st, its) ==
    IF its = <<>> THEN st ELSE mathLoop(mathToken(st, Head(its)), Tail(its))

detectMathEquations(its) ==
    remainingEquation(
        mathLoop([equations |-> <<>>, current |-> <<>>, startY |-> NullY],
                 its))

-----------------------------------------------------------------------------
(* The equation detector applied to one page, token by token *)

MaxMathItems == 4

MathTok(text, y) == TextTok(text, 720, y, 120, "Helvetica")

\* On the line y = 500 a summation sign, "i=1" and the word "ab"; "n" 2
\* units lower; a summation sign and "n" 20 units lower; a summation sign
\* at y = 0.
MathTokens ==
    {MathTok(<<12>>, 5000), MathTok(<<13>>, 5000), MathTok(<<1>>, 5000),
     MathTok(<<14>>, 4980),
     MathTok(<<12>>, 4800), MathTok(<<14>>, 4800),
     MathTok(<<12>>, 0)}

InitMath ==
    /\ items \in SeqsUpTo(MathTokens, MaxMathItems)
    /\ NoDetection
    /\ NoExtraction
    /\ NoLayout
    /\ NoUpload
    /\ columns = <<>>
    /\ table = Idle
    /\ ordered = <<>>
    /\ doc = Idle
    /\ content = <<>>
    /\ pageIdx = 0
    /\ heading = Idle
    /\ stats = Idle
    /\ pc = "detectMathEquations"

\* One turn of items.forEach.
MathToken ==
    /\ pc = "detectMathEquations"
    /\ itemIndex < Len(items)
    /\ LET st == mathToken([equations |-> equations,
                            current |-> currentEquation,
                            startY |-> equationStartY],
                           items[itemIndex + 1])
       IN  /\ equations' = st.equations
           /\ currentEquation' = st.current
           /\ equationStartY' = st.startY
    /\ itemIndex' = itemIndex + 1
    /\ UNCHANGED <<items, columns, table, ordered, doc, content, pageIdx,
                   heading, stats, pc, extractVars,
                   layoutVars, uploadVars>>

\* The end of the loop: the remaining span, and the return.
MathReturn ==
    /\ pc = "detectMathEquations"
    /\ itemIndex = Len(items)
    /\ equations' = remainingEquation([equations |-> equations,
                                       current |-> currentEquation,
                                       startY |-> equationStartY])
    /\ pc' = "done"
    /\ UNCHANGED <<items, columns, table, ordered, doc, content, pageIdx,
                   heading, stats, currentEquation, equationStartY,
                   itemIndex, extractVars,
                   layoutVars, uploadVars>>

NextMath == MathToken \/ MathReturn

SpecMath == InitMath /\ [][NextMath]_vars

-----------------------------------------------------------------------------
(* detectColumns (extract-script.mjs lines 15-62)                           *)

clusterThreshold == 400

columnMargin == 200

MinClusterCount == 3

\* The distinct values of xs in ascending order.
RECURSIVE ascending(_)
ascending(S) ==
    IF S = {} THEN <<>>
    ELSE LET least == CHOOSE v \in S : \A u \in S : v <= u
         IN  <<least>> \o ascending(S \ {least})

\* Whether the center of cluster c (the mean of its positions) is less than
\* 40 units from x.
nearCluster(c, x) ==
    Abs(SumSeq(c.positions) - x * Len(c.positions))
        < clusterThreshold * Len(c.positions)

\* The turn of the loop that puts x into the last cluster whatever its
\* center, and starts a cluster only when there is none.
clusterXIntoLast(clusters, x) ==
    IF clusters # <<>>
    THEN [clusters EXCEPT ![Len(clusters)].positions = Append(@, x)]
    ELSE Append(clusters, [positions |-> <<x>>])

\* One turn of uniqueX.forEach (lines 30-43): x joins the first cluster
\* whose center is less than 40 units away, or starts a cluster.  count is
\* the length of positions.
clusterX(clusters, x) ==
    LET near == {k \in 1..Len(clusters) : nearCluster(clusters[k], x)}
    IN  IF near # {}
        THEN [clusters EXCEPT
                 ![CHOOSE h \in near : \A g \in near : h <= g].positions =
                     Append(@, x)]
        ELSE Append(clusters, [positions |-> <<x>>])

RECURSIVE clustersOf(_, _)
clustersOf(uniqueX, clusters) ==
    IF uniqueX = <<>> THEN clusters
    ELSE clustersOf(Tail(uniqueX), clusterX(clusters, Head(uniqueX)))

\* The column that reaches the center of the next cluster.
innerColumnToNextCenter(sum, n, nextSum, nextN) ==
    [startX |-> nextN * (sum - columnMargin * n),
     endX |-> nextSum * n,
     centerX |-> nextN * sum,
     scale |-> n * nextN]

\* The column of a cluster of mean sum / n followed by a cluster of mean
\* nextSum / nextN: startX = center - 20, endX = (center + next) / 2.
innerColumn(sum, n, nextSum, nextN) ==
    [startX |-> 2 * nextN * (sum - columnMargin * n),
     endX |-> sum * nextN + nextSum * n,
     centerX |-> 2 * nextN * sum,
     scale |-> 2 * n * nextN]

\* The column of the last cluster: endX = pageWidth.
lastColumn(sum, n, pageWidth) ==
    [startX |-> sum - columnMargin * n,
     endX |-> pageWidth * n,
     centerX |-> sum,
     scale |-> n]

\* The left edges of the substantial tokens, without repetition, in
\* ascending order (lines 19-24).
uniqueXOf(its) ==
    ascending({its[k].x : k \in {h \in 1..Len(its) :
                                    /\ StrLen(Trim(its[h].text)) > 3
                                    /\ its[h].width > 100}})

\* The map of lines 52-59 over the sorted significant clusters.
columnBoundaries(significantClusters, pageWidth) ==
    LET total(k) == SumSeq(significantClusters[k].positions)
        count(k) == Len(significantClusters[k].positions)
    IN  [k \in 1..Len(significantClusters) |->
            IF k < Len(significantClusters)
            THEN innerColumn(total(k), count(k), total(k + 1), count(k + 1))
            ELSE lastColumn(total(k), count(k), pageWidth)]

\* The filter, the sort and the map of lines 46-59.
columnsOfClusters(clusters, pageWidth) ==
    columnBoundaries(
        ArraySort(SelectSeq(clusters, LAMBDA c :
                                Len(c.positions) >= MinClusterCount),
                  "byCenter"),
        pageWidth)

detectColumns(its, pageWidth) ==
    IF its = <<>> THEN <<>>
    ELSE columnsOfClusters(clustersOf(uniqueXOf(its), <<>>), pageWidth)

-----------------------------------------------------------------------------
(* detectFigures (extract-script.mjs lines 172-205)                         *)

\* Words that figurePattern matches, and the number the pattern captures.
FigureLabels == {17}

FigureNumber(w) == <<20>>

captionReach == 9

\* The loop over captionItems: a token less than 20 units above and less
\* than 30 units below the label is added, one 30 units or more below ends
\* the caption, one 20 units or more above is passed over.
\* The caption loop without the window test: every token is added.
RECURSIVE captionOfAll(_, _, _)
captionOfAll(item, captionItems, caption) ==
    IF captionItems = <<>> THEN caption
    ELSE captionOfAll(item, Tail(captionItems),
                      caption \o <<Blank>> \o Head(captionItems).text)

RECURSIVE captionOf(_, _, _)
captionOf(item, captionItems, caption) ==
    IF captionItems = <<>> THEN caption
    ELSE LET nextItem == Head(captionItems)
             yDiff == item.y - nextItem.y
         IN  IF yDiff > -200 /\ yDiff < 300
             THEN captionOf(item, Tail(captionItems),
                            caption \o <<Blank>> \o nextItem.text)
             ELSE IF yDiff >= 300 THEN caption
             ELSE captionOf(item, Tail(captionItems), caption)

\* item.text.match(figurePattern): the pattern is anchored at the start of
\* the untrimmed text.
matchesFigure(item) == item.text # <<>> /\ item.text[1] \in FigureLabels

\* items.slice(index + 1, index + 10), index counted from 1 here.
captionItemsOf(its, index) ==
    SubSeq(its, index + 1,
           IF index + captionReach < Len(its) THEN index + captionReach
                                              ELSE Len(its))

\* The record pushed for a matching token (lines 192-200).
Figure(its, index) ==
    [type |-> "figure",
     label |-> <<its[index].text[1]>>,
     number |-> FigureNumber(its[index].text[1]),
     caption |-> Trim(captionOf(its[index], captionItemsOf(its, index),
                                its[index].text)),
     x |-> its[index].x,
     y |-> its[index].y,
     altText |-> <<>>]

detectFigures(its) ==
    LET labelled == SelectSeq([k \in 1..Len(its) |-> k],
                             LAMBDA k : matchesFigure(its[k]))
    IN  [f \in 1..Len(labelled) |-> Figure(its, labelled[f])]

-----------------------------------------------------------------------------
(* The figure detector applied to one page, token by token *)

MaxFigureItems == 4

FigTok(text, y) == TextTok(text, 720, y, 120, "Helvetica")

\* A label on the line y = 600; words on that line, 19.9 and 20 units
\* above it, 29.9 and 30 units below it.
FigureTokens ==
    {FigTok(<<17>>, 6000), FigTok(<<2>>, 6000), FigTok(<<1>>, 6199),
     FigTok(<<5>>, 6200), FigTok(<<6>>, 5701), FigTok(<<8>>, 5700)}

\* A label followed by 8 to 11 words of its line.
LongCaptions ==
    {<<FigTok(<<17>>, 6000)>> \o [k \in 1..n |-> FigTok(<<2>>, 6000)] :
        n \in 8..11}

InitFigures ==
    /\ items \in SeqsUpTo(FigureTokens, MaxFigureItems) \cup LongCaptions
    /\ NoDetection
    /\ NoExtraction
    /\ NoLayout
    /\ NoUpload
    /\ columns = <<>>
    /\ table = Idle
    /\ ordered = <<>>
    /\ doc = Idle
    /\ content = <<>>
    /\ pageIdx = 0
    /\ heading = Idle
    /\ stats = Idle
    /\ pc = "detectFigures"

\* One turn of items.forEach.
FigureItem ==
    /\ pc = "detectFigures"
    /\ itemIndex < Len(items)
    /\ figureList' = IF matchesFigure(items[itemIndex + 1])
                     THEN Append(figureList, Figure(items, itemIndex + 1))
                     ELSE figureList
    /\ itemIndex' = itemIndex + 1
    /\ UNCHANGED <<items, columns, table, ordered, doc, content, pageIdx,
                   heading, stats, pc, equations, currentEquation,
                   equationStartY, extractVars, pendingX, clusterList,
                   textSoFar, uploadVars>>

\* return figures
FiguresReturn ==
    /\ pc = "detectFigures"
    /\ itemIndex = Len(items)
    /\ pc' = "done"
    /\ UNCHANGED <<items, columns, table, ordered, doc, content, pageIdx,
                   heading, stats, mathVars, extractVars, layoutVars,
                   uploadVars>>

NextFigures == FigureItem \/ FiguresReturn

SpecFigures == InitFigures /\ [][NextFigures]_vars

-----------------------------------------------------------------------------
(* POST of the analyze route: scanned test and font statistics              *)
(* (route.ts lines 141-182)                                                 *)

\* font_stats as the Map holds it: the sizes in insertion order and the
\* total text length of each.  A size is already a multiple of 0.1, which
\* Math.round(size * 10) / 10 leaves as it is.
RECURSIVE fontStats(_, _)
fontStats(its, map) ==
    IF its = <<>> THEN map
    ELSE LET size == Head(its).fontSize
             len == StrLen(Head(its).text)
             known == {k \in 1..Len(map) : map[k].size = size}
         IN  IF len > 0 /\ size > 0
             THEN IF known # {}
                  THEN LET k == CHOOSE h \in known : TRUE
                       IN  fontStats(Tail(its),
                               [map EXCEPT ![k].total = @ + len])
                  ELSE fontStats(Tail(its),
                               Append(map, [size |-> size, total |-> len]))
             ELSE fontStats(Tail(its), map)

allItems(pages) == Flatten([k \in 1..Len(pages) |-> pages[k].items])

\* The reducer that always moves on to the later key.
keepLater(a, b) == b

\* The reducer that keeps the accumulator on equal totals.
keepFirst(a, b) == IF a.total >= b.total THEN a ELSE b

\* (a, b) => font_stats.get(a) > font_stats.get(b) ? a : b
keepGreater(a, b) == IF a.total > b.total THEN a ELSE b

\* all_font_sizes.reduce(...) without an initial value.
RECURSIVE reduceSizes(_, _)
reduceSizes(acc, rest) ==
    IF rest = <<>> THEN acc
    ELSE reduceSizes(keepGreater(acc, Head(rest)), Tail(rest))

DefaultBodyFontSize == 120

DefaultMaxFontSize == 140

ScannedFloor == 100

ScannedPerPageFloor == 20

\* The scanned test without its characters-per-page half.
detectScannedByFloorOnly(totalTextLength, page_count) ==
    totalTextLength < ScannedFloor

\* totalTextLength < 100 || totalTextLength / page_count < 20, the quotient
\* compared exactly: t / n < 20 is t < 20 * n for n > 0.
detectScanned(totalTextLength, page_count) ==
    \/ totalTextLength < ScannedFloor
    \/ totalTextLength < ScannedPerPageFloor * page_count

analyze(extraction, page_count) ==
    IF extraction.ok
    THEN LET map == fontStats(allItems(extraction.pages), <<>>)
         IN  [isScanned |->
                  detectScanned(extraction.totalTextLength, page_count),
              body_font_size |->
                  IF map # <<>> THEN reduceSizes(map[1], Tail(map)).size
                                ELSE DefaultBodyFontSize,
              maxFontSize |->
                  IF map # <<>> THEN maxOf([k \in 1..Len(map) |-> map[k].size])
                                ELSE DefaultMaxFontSize,
              pages |-> extraction.pages]
    ELSE [isScanned |-> TRUE,
          body_font_size |-> DefaultBodyFontSize,
          maxFontSize |-> DefaultMaxFontSize,
          pages |-> [k \in 1..page_count |->
                        PageData(k, <<>>, NoExtras)]]

-----------------------------------------------------------------------------
(* Requests to the analyze route *)

MaxFontItems == 3

FontTok(text, fontSize) == TextTok(text, 720, 7000, fontSize, "Helvetica")

\* Sizes 10, 12 and 14 with texts of 4 and 5 characters, a token without
\* text and a token of size 0.
FontTokens ==
    {FontTok(<<2>>, 100), FontTok(<<3>>, 100),
     FontTok(<<2>>, 120), FontTok(<<3>>, 120),
     FontTok(<<11>>, 140), FontTok(<<>>, 140),
     FontTok(<<3, Blank, 2>>, 0)}

\* The tokens its cut into a first page of cut tokens and, when some are
\* left or the cut is 0, a second page.
PagesOf(its, cut) ==
    IF cut = Len(its) /\ cut > 0
    THEN <<PageData(1, its, NoExtras)>>
    ELSE <<PageData(1, SubSeq(its, 1, cut), NoExtras),
           PageData(2, SubSeq(its, cut + 1, Len(its)), NoExtras)>>

\* The pages followed by n pages without tokens.
PadPages(pages, n) ==
    pages \o [k \in 1..n |-> PageData(Len(pages) + k, <<>>, NoExtras)]

\* Total text lengths around the two floors, each with a number of trailing
\* pages without tokens: 40, 99 and 100 characters on 1 or 2 pages, 119 and
\* 120 characters on 5 or 6 pages.
TotalsAndPadding == {<<40, 0>>, <<99, 0>>, <<100, 0>>, <<119, 4>>, <<120, 4>>}

\* The documents of 5 and 6 pages hold at most one token.
Extractions(maxFontItems) ==
    {[ok |-> TRUE, pages |-> PadPages(PagesOf(its, cut), t[2]),
      totalTextLength |-> t[1]] :
        <<its, cut, t>> \in
            UNION {{<<q, c, u>> : c \in 0..Len(q),
                                  u \in {v \in TotalsAndPadding :
                                            v[2] = 0 \/ Len(q) <= 1}} :
                   q \in SeqsUpTo(FontTokens, maxFontItems)}}
    \cup {[ok |-> FALSE]}

InitFont ==
    /\ NoDetection
    /\ NoExtraction
    /\ NoLayout
    /\ NoUpload
    /\ stats \in {[extraction |-> e,
                   page_count |-> IF e.ok THEN Len(e.pages) ELSE 2] :
                     e \in Extractions(MaxFontItems)}
    /\ doc = Idle
    /\ items = <<>>
    /\ columns = <<>>
    /\ table = Idle
    /\ ordered = <<>>
    /\ content = <<>>
    /\ pageIdx = 0
    /\ heading = Idle
    /\ pc = "analyze"

Analyze ==
    /\ pc = "analyze"
    /\ doc' = analyze(stats.extraction, stats.page_count)
    /\ pc' = "done"
    /\ UNCHANGED <<items, columns, table, ordered, content, pageIdx, heading,
                   stats, mathVars, extractVars,
                   layoutVars, uploadVars>>

NextFont == Analyze

SpecFont == InitFont /\ [][NextFont]_vars

-----------------------------------------------------------------------------
(* buildStructuredText (extract-script.mjs lines 161-169 and 339-420)       *)

Bullet == 16

Newline == 18

Bar == 19

\* The bullet characters of the dictionary: "-" and the bullet sign.
BulletWords == {15, Bullet}

isBulletPoint(item) ==
    \/ Trim(item.text) = <<>> /\ item.width < 100
    \/ Len(Trim(item.text)) = 1 /\ Trim(item.text)[1] \in BulletWords

\* texts.join(" | ")
RECURSIVE joinCells(_)
joinCells(texts) ==
    IF texts = <<>> THEN <<>>
    ELSE IF Len(texts) = 1 THEN texts[1]
    ELSE texts[1] \o <<Blank, Bar, Blank>> \o joinCells(Tail(texts))

\* The text of a table page: each row's trimmed non-empty cell texts
\* joined, and a line feed after every row that has text.
tableText(rows) ==
    Flatten([k \in 1..Len(rows) |->
        LET texts == SelectSeq([c \in 1..Len(rows[k].cells) |->
                                   Trim(rows[k].cells[c].text)],
                               LAMBDA t : t # <<>>)
            rowText == joinCells(texts)
        IN  IF rowText # <<>> THEN rowText \o <<Newline>> ELSE <<>>])

hasColumn(item) == "column" \in DOMAIN item

\* The joining rules with the column change tested after the gaps.
joinNextGapsFirst(prev, item) ==
    LET horizontal_gap == item.x - (prev.x + prev.width)
        vertical_gap == prev.y - item.y
        is_paragraph == 2 * vertical_gap > 5 * item.fontSize
        is_new_line == vertical_gap > sameLine /\ ~is_paragraph
        has_gap == 10 * horizontal_gap > item.fontSize
        column_changed == /\ hasColumn(prev)
                          /\ hasColumn(item)
                          /\ prev.column # item.column
    IN  IF is_paragraph
        THEN <<Newline, Newline>> \o TrimStart(item.text)
        ELSE IF is_new_line THEN <<Newline>> \o TrimStart(item.text)
        ELSE IF has_gap THEN <<Blank>> \o TrimStart(item.text)
        ELSE IF column_changed
        THEN <<Newline, Newline>> \o TrimStart(item.text)
        ELSE item.text

\* What is put between the text so far and the next token (lines 383-416),
\* followed by the token's text.
joinNext(prev, item) ==
    LET horizontal_gap == item.x - (prev.x + prev.width)
        vertical_gap == prev.y - item.y
        is_paragraph == 2 * vertical_gap > 5 * item.fontSize
        is_new_line == vertical_gap > sameLine /\ ~is_paragraph
        has_gap == 10 * horizontal_gap > item.fontSize
        column_changed == /\ hasColumn(prev)
                          /\ hasColumn(item)
                          /\ prev.column # item.column
    IN  IF column_changed \/ is_paragraph
        THEN <<Newline, Newline>> \o TrimStart(item.text)
        ELSE IF is_new_line THEN <<Newline>> \o TrimStart(item.text)
        ELSE IF has_gap THEN <<Blank>> \o TrimStart(item.text)
        ELSE item.text

\* One turn of the loop over orderedItems (lines 369-417), index counted
\* from 1.
joinItem(orderedItems, index, pageText) ==
    IF isBulletPoint(orderedItems[index])
    THEN pageText \o <<Newline, Bullet, Blank>>
    ELSE IF index = 1 THEN Trim(orderedItems[index].text)
    ELSE pageText \o joinNext(orderedItems[index - 1], orderedItems[index])

\* The loop over orderedItems from position index.
RECURSIVE flowText(_, _, _)
flowText(orderedItems, index, pageText) ==
    IF index > Len(orderedItems) THEN pageText
    ELSE flowText(orderedItems, index + 1,
                  joinItem(orderedItems, index, pageText))

\* The text and structures returned, and the page's token array as the call
\* leaves it: createReadingOrder sorts it in place when the page has at most
\* one column.
structuredText(its, cols, found, orderedItems) ==
    IF found # NullTable
    THEN [text |-> tableText(found.rows),
          structures |-> <<[type |-> "table", startIndex |-> 0,
                            endIndex |-> Len(its)]>>,
          items |-> its]
    ELSE [text |-> flowText(orderedItems, 1, <<>>),
          structures |-> <<>>,
          items |-> IF Len(cols) <= 1 THEN orderedItems ELSE its]

buildStructuredText(its, cols) ==
    structuredText(its, cols, detectTable(its), createReadingOrder(its, cols))

-----------------------------------------------------------------------------
(* extract (extract-script.mjs lines 422-508)                               *)

\* Math.round(v * 10) / 10 of a number given in hundredths, in tenths.
Round10(v) == (v + 5) \div 10

\* An entry of textContent.items without text: a marked-content marker.
Marker == [type |-> "beginMarkedContent"]

\* The filter and the map of lines 447-462.
normalize(rawItems) ==
    LET kept == SelectSeq(rawItems, LAMBDA raw :
                    "str" \in DOMAIN raw /\ "transform" \in DOMAIN raw)
    IN  [k \in 1..Len(kept) |->
            [text |-> kept[k].str,
             x |-> Round10(kept[k].transform[5]),
             y |-> Round10(kept[k].transform[6]),
             width |-> IF "width" \in DOMAIN kept[k]
                       THEN Round10(kept[k].width) ELSE 0,
             height |-> IF "height" \in DOMAIN kept[k]
                        THEN Round10(kept[k].height) ELSE 0,
             fontSize |-> Round10(Abs(kept[k].transform[1])),
             fontName |-> IF "fontName" \in DOMAIN kept[k]
                          THEN kept[k].fontName ELSE "unknown"]]

\* The detector invocations of one turn of the page loop, in order; the
\* text builder calls the table detector once more and, when it finds no
\* table, the reading-order sequencer.
pageCalls(pageNum, hasTable) ==
    [k \in 1..6 |->
        [name |-> <<"detectColumns", "detectTable", "detectFigures",
                    "detectMathEquations", "buildStructuredText",
                    "detectTable">>[k],
         pageNumber |-> pageNum]]
    \o (IF hasTable THEN <<>>
        ELSE <<[name |-> "createReadingOrder", pageNumber |-> pageNum]>>)

\* The record pushed for page pageNum (lines 464-497).
pageRecord(pageNum, pageWidth, pageHeight, cols, found, figs, eqs, built) ==
    [pageNumber |-> pageNum,
     text |-> built.text,
     textLength |-> StrLen(built.text),
     width |-> pageWidth,
     height |-> pageHeight,
     columns |-> Len(cols),
     hasTable |-> found # NullTable,
     table |-> found,
     figures |-> figs,
     equations |-> eqs,
     structures |-> built.structures,
     items |-> built.items]

\* The detector calls of lines 465-480 on the page's tokens.
pageDetections(pageNum, its, pageWidth, pageHeight, cols) ==
    pageRecord(pageNum, pageWidth, pageHeight, cols, detectTable(its),
               detectFigures(its), detectMathEquations(its),
               buildStructuredText(its, cols))

pageOfItems(pageNum, its, pageWidth, pageHeight) ==
    pageDetections(pageNum, its, pageWidth, pageHeight,
                   detectColumns(its, pageWidth))

extractPage(pageNum, rawItems, pageWidth, pageHeight) ==
    pageOfItems(pageNum, normalize(rawItems), pageWidth, pageHeight)

-----------------------------------------------------------------------------
(* Uploaded documents, from extraction to the reader's structured content *)

MaxPdfPages == 2

PageWidth == 6120

PageHeight == 7920

\* A token as the PDF library reports it, in hundredths of a unit.
Raw(tok) ==
    [str |-> tok.text,
     transform |-> <<10 * tok.fontSize, 0, 0, 10 * tok.fontSize,
                     10 * tok.x, 10 * tok.y>>,
     width |-> 10 * tok.width,
     height |-> 10 * tok.height,
     fontName |-> tok.fontName]

RawPage(its) == [k \in 1..Len(its) |-> Raw(its[k])]

\* Only a marker: no token is left after the filter.
MarkerPage == <<Marker>>

\* "Chapter 1" at 24 above one body word: 15 characters of page text.
ShortPage ==
    RawPage(<<TextTok(<<4>>, 720, 7200, 240, "Arial-Bold"),
              TextTok(<<2>>, 720, 7000, 120, "Helvetica")>>)

\* A body line of 120 characters listed before the heading above it, a
\* marker, and a last line whose token has a mirrored transform, an x of
\* 72.04 and no font name or width.
BodyPage ==
    <<Raw(TextTok(<<7>>, 720, 7000, 120, "Helvetica")),
      Marker,
      Raw(TextTok(<<4>>, 720, 7200, 240, "Arial-Bold")),
      [str |-> <<2>>, transform |-> <<-1200, 0, 0, 1200, 7204, 65000>>]>>

\* Five rows of two cells.
TablePage ==
    RawPage(Flatten([r \in 1..5 |-> <<GridCell(r, 1), GridCell(r, 2)>>]))

\* Three lines in two columns, the left edges of each column 1 unit apart.
TwoColumnPage ==
    RawPage(Flatten([r \in 1..3 |->
        <<TextTok(<<6>>, 720 + 10 * (r - 1), 7000 - 200 * (r - 1), 120,
                  "Helvetica"),
          TextTok(<<6>>, 3300 + 10 * (r - 1), 7000 - 200 * (r - 1), 120,
                  "Helvetica")>>]))

\* A figure label with its caption, an equation of three tokens, a bullet
\* and a body line of 120 characters.
MathPage ==
    RawPage(<<TextTok(<<17>>, 720, 6000, 120, "Helvetica"),
              TextTok(<<2>>, 1700, 5990, 120, "Helvetica"),
              TextTok(<<12>>, 720, 5000, 120, "Helvetica"),
              TextTok(<<13>>, 1700, 5000, 120, "Helvetica"),
              TextTok(<<14>>, 2700, 4980, 120, "Helvetica"),
              TextTok(<<Bullet>>, 720, 4000, 120, "Helvetica"),
              TextTok(<<7>>, 1700, 4000, 120, "Helvetica")>>)

\* On one line a summation sign whose transform has a scale of 0, "i=1" and
\* "n".
ZeroSizePage ==
    <<[Raw(TextTok(<<12>>, 720, 5000, 120, "Helvetica")) EXCEPT
          !.transform = <<0, 0, 0, 0, 7200, 50000>>],
      Raw(TextTok(<<13>>, 1700, 5000, 120, "Helvetica")),
      Raw(TextTok(<<14>>, 2700, 5000, 120, "Helvetica"))>>

RawPages ==
    {<<>>, MarkerPage, ShortPage, BodyPage, TablePage, TwoColumnPage, MathPage,
     ZeroSizePage}

\* Documents of up to maxPdfPages pages; the PDF library fails on page
\* failsAt, on none when failsAt is 0.
Pdfs(maxPdfPages) ==
    {[pages |-> q, failsAt |-> f] :
        <<q, f>> \in UNION {{<<q2, f2>> : f2 \in 0..Len(q2)} :
                              q2 \in UNION {[1..n -> RawPages] :
                                              n \in 1..maxPdfPages}}}

InitPipeline ==
    /\ pdf \in Pdfs(MaxPdfPages)
    /\ calls = <<>>
    /\ stats = [extraction |-> [ok |-> TRUE, pages |-> <<>>,
                                totalTextLength |-> 0],
                page_count |-> Len(pdf.pages)]
    /\ NoDetection
    /\ NoLayout
    /\ NoUpload
    /\ items = <<>>
    /\ columns = <<>>
    /\ table = Idle
    /\ ordered = <<>>
    /\ doc = Idle
    /\ content = <<>>
    /\ pageIdx = 0
    /\ heading = Idle
    /\ pc = "extract"

\* Number of the page the loop of line 440 takes next.
pageNum == Len(stats.extraction.pages) + 1

\* One turn of the page loop.
ExtractPage ==
    /\ pc = "extract"
    /\ pageNum <= Len(pdf.pages)
    /\ pageNum # pdf.failsAt
    /\ LET page == extractPage(pageNum, pdf.pages[pageNum],
                               PageWidth, PageHeight)
       IN  /\ stats' = [stats EXCEPT
                           !.extraction.pages = Append(@, page),
                           !.extraction.totalTextLength = @ + page.textLength]
           /\ items' = page.items
           /\ table' = page.table
           /\ columns' = detectColumns(normalize(pdf.pages[pageNum]),
                                       PageWidth)
           /\ calls' = calls \o pageCalls(pageNum, page.hasTable)
    /\ UNCHANGED <<ordered, doc, content, pageIdx, heading, pc, mathVars, pdf,
                   layoutVars, uploadVars>>

\* The PDF library rejects the page: the script exits with status 1 and
\* extractTextWithPdfjs returns null.
ExtractFails ==
    /\ pc = "extract"
    /\ pageNum = pdf.failsAt
    /\ stats' = [stats EXCEPT !.extraction = [ok |-> FALSE]]
    /\ pc' = "analyze"
    /\ UNCHANGED <<items, columns, table, ordered, doc, content, pageIdx,
                   heading, mathVars, extractVars,
                   layoutVars, uploadVars>>

\* The script prints its result.
ExtractReturn ==
    /\ pc = "extract"
    /\ pdf.failsAt = 0
    /\ pageNum > Len(pdf.pages)
    /\ pc' = "analyze"
    /\ UNCHANGED <<items, columns, table, ordered, doc, content, pageIdx,
                   heading, stats, mathVars, extractVars,
                   layoutVars, uploadVars>>

\* The route builds its response and the reader page, in one of its two
\* versions, loads it.
AnalyzeExtracted ==
    /\ pc = "analyze"
    /\ doc' = analyze(stats.extraction, stats.page_count)
    /\ pc' \in {"structure", "structureByLine"}
    /\ UNCHANGED <<items, columns, table, ordered, content, pageIdx, heading,
                   stats, mathVars, extractVars,
                   layoutVars, uploadVars>>

NextPipeline ==
    \/ ExtractPage
    \/ ExtractFails
    \/ ExtractReturn
    \/ AnalyzeExtracted
    \/ StructureScanned
    \/ StructurePage
    \/ StructurePageByLine
    \/ ReturnContent

SpecPipeline == InitPipeline /\ [][NextPipeline]_vars

-----------------------------------------------------------------------------
(* The column detector applied to one page, left edge by left edge *)

MaxColumnEdges == 7

\* Left edges: three 1 unit apart, one 28, one 38 and one 67 units to the
\* right of the first; three 1 unit apart around x = 330 and one 45 units
\* to the right of the first of them.
ColumnEdges == {720, 730, 740, 1000, 1100, 1390, 3300, 3310, 3320, 3750}

\* A substantial token at x, and tokens too short or too narrow to count.
EdgeTok(x) == TextTok(<<2>>, x, 7000, 120, "Helvetica")

ShortTok(x) == TextTok(<<10>>, x, 7000, 120, "Helvetica")

NarrowTok(x) == [EdgeTok(x) EXCEPT !.width = 100]

\* The tokens at the edges S from right to left, each one twice when
\* twice holds, after three short and three narrow tokens when noise holds.
EdgePage(S, twice, noise) ==
    (IF noise
     THEN <<ShortTok(5000), ShortTok(5010), ShortTok(5020),
            NarrowTok(5500), NarrowTok(5510), NarrowTok(5520)>>
     ELSE <<>>)
    \o Flatten([k \in 1..Cardinality(S) |->
           IF twice
           THEN <<EdgeTok(descending(S)[k]), EdgeTok(descending(S)[k])>>
           ELSE <<EdgeTok(descending(S)[k])>>])

EdgePages(maxColumnEdges) ==
    {EdgePage(S, twice, noise) :
        S \in {T \in SUBSET ColumnEdges : Cardinality(T) <= maxColumnEdges},
        twice \in BOOLEAN, noise \in BOOLEAN}

InitColumns ==
    /\ items \in EdgePages(MaxColumnEdges)
    /\ NoDetection
    /\ NoExtraction
    /\ NoLayout
    /\ NoUpload
    /\ columns = <<>>
    /\ table = Idle
    /\ ordered = <<>>
    /\ doc = Idle
    /\ content = <<>>
    /\ pageIdx = 0
    /\ heading = Idle
    /\ stats = Idle
    /\ pc = "detectColumns"

\* if (items.length === 0) return []
ColumnsOfNoItems ==
    /\ pc = "detectColumns"
    /\ items = <<>>
    /\ columns' = <<>>
    /\ pc' = "done"
    /\ UNCHANGED <<items, table, ordered, doc, content, pageIdx, heading,
                   stats, mathVars, extractVars, layoutVars, uploadVars>>

\* The left edges are collected and sorted.
CollectEdges ==
    /\ pc = "detectColumns"
    /\ items # <<>>
    /\ pendingX' = uniqueXOf(items)
    /\ pc' = "cluster"
    /\ UNCHANGED <<items, columns, table, ordered, doc, content, pageIdx,
                   heading, stats, mathVars, extractVars, figureList,
                   clusterList, textSoFar, uploadVars>>

\* One turn of uniqueX.forEach.
ClusterX ==
    /\ pc = "cluster"
    /\ pendingX # <<>>
    /\ clusterList' = clusterX(clusterList, Head(pendingX))
    /\ pendingX' = Tail(pendingX)
    /\ UNCHANGED <<items, columns, table, ordered, doc, content, pageIdx,
                   heading, stats, pc, mathVars, extractVars, figureList,
                   textSoFar, uploadVars>>

\* The clusters are filtered, sorted and turned into columns.
ColumnsReturn ==
    /\ pc = "cluster"
    /\ pendingX = <<>>
    /\ columns' = columnsOfClusters(clusterList, PageWidth)
    /\ pc' = "done"
    /\ UNCHANGED <<items, table, ordered, doc, content, pageIdx, heading,
                   stats, mathVars, extractVars, layoutVars, uploadVars>>

NextColumns == ColumnsOfNoItems \/ CollectEdges \/ ClusterX \/ ColumnsReturn

SpecColumns == InitColumns /\ [][NextColumns]_vars

-----------------------------------------------------------------------------
(* The text builder applied to one page, token by token *)

MaxTextItems == 3

\* A word at x = 72; a token that starts where it ends and one 8 units
\* further, both with a leading blank; a word 12 units lower; a token of
\* size 24 and one of size 12 further down; a bullet; two words of the
\* right column.
TextTokens ==
    {TextTok(<<2>>, 720, 7000, 120, "Helvetica"),
     TextTok(<<Blank, 1>>, 1620, 7000, 120, "Helvetica"),
     TextTok(<<Blank, 2>>, 2600, 7000, 120, "Helvetica"),
     TextTok(<<2>>, 720, 6880, 120, "Helvetica"),
     TextTok(<<4>>, 720, 6500, 240, "Helvetica"),
     TextTok(<<2>>, 730, 6450, 120, "Helvetica"),
     TextTok(<<Bullet>>, 600, 6880, 120, "Helvetica"),
     TextTok(<<2>>, 3300, 7000, 120, "Helvetica"),
     TextTok(<<2>>, 3300, 6880, 120, "Helvetica")}

InitText ==
    /\ \/ /\ items \in SeqsUpTo(TextTokens, MaxTextItems)
          /\ columns \in {<<>>, <<LeftColumn, RightColumn>>}
       \/ /\ items = normalize(TablePage)
          /\ columns = <<>>
    /\ NoDetection
    /\ NoExtraction
    /\ NoLayout
    /\ NoUpload
    /\ table = Idle
    /\ ordered = <<>>
    /\ doc = Idle
    /\ content = <<>>
    /\ pageIdx = 0
    /\ heading = Idle
    /\ stats = Idle
    /\ pc = "buildStructuredText"

\* The page holds a table: its rows are the text (lines 344-362).
TextOfTable ==
    /\ pc = "buildStructuredText"
    /\ detectTable(items) # NullTable
    /\ table' = detectTable(items)
    /\ textSoFar' = tableText(detectTable(items).rows)
    /\ pc' = "done"
    /\ UNCHANGED <<items, columns, ordered, doc, content, pageIdx, heading,
                   stats, mathVars, extractVars, figureList, pendingX,
                   clusterList, uploadVars>>

\* No table: the tokens are put in reading order (line 366); the sort of
\* the single-column branch is in place.
OrderItems ==
    /\ pc = "buildStructuredText"
    /\ detectTable(items) = NullTable
    /\ table' = NullTable
    /\ ordered' = createReadingOrder(items, columns)
    /\ items' = IF Len(columns) <= 1 THEN createReadingOrder(items, columns)
                                     ELSE items
    /\ pc' = "join"
    /\ UNCHANGED <<columns, doc, content, pageIdx, heading, stats, mathVars,
                   extractVars, layoutVars, uploadVars>>

\* One turn of the loop over orderedItems.
JoinItem ==
    /\ pc = "join"
    /\ itemIndex < Len(ordered)
    /\ textSoFar' = joinItem(ordered, itemIndex + 1, textSoFar)
    /\ itemIndex' = itemIndex + 1
    /\ UNCHANGED <<items, columns, table, ordered, doc, content, pageIdx,
                   heading, stats, pc, equations, currentEquation,
                   equationStartY, extractVars, figureList, pendingX,
                   clusterList, uploadVars>>

\* return { text: pageText, structures }
TextReturn ==
    /\ pc = "join"
    /\ itemIndex = Len(ordered)
    /\ pc' = "done"
    /\ UNCHANGED <<items, columns, table, ordered, doc, content, pageIdx,
                   heading, stats, mathVars, extractVars, layoutVars,
                   uploadVars>>

NextText == TextOfTable \/ OrderItems \/ JoinItem \/ TextReturn

SpecText == InitText /\ [][NextText]_vars

-----------------------------------------------------------------------------
(* The upload page: onDrop (src/app/upload/page.tsx lines 15-66)            *)

MaxPageCount == 2

\* The files a user drops and the name the upload route stores each under.
Files == {"a.pdf", "b.pdf"}

StoredName(file) == IF file = "a.pdf" THEN "1-a.pdf" ELSE "2-b.pdf"

\* The error texts of a rejected request and of a thrown exception.
Errors == {"No file", "Failed to fetch"}

\* The else branch of the upload (lines 33-36).
uploadFailed(error) ==
    [status |-> [kind |-> "uploadFailed", error |-> error],
     isProcessing |-> FALSE]

\* The rejected analysis that leaves the dropzone disabled.
analysisFailedStillProcessing(error) ==
    [status |-> [kind |-> "analysisFailed", error |-> error],
     isProcessing |-> TRUE]

\* if (!analyze_response.ok) (lines 44-50)
analysisFailed(error) ==
    [status |-> [kind |-> "analysisFailed", error |-> error],
     isProcessing |-> FALSE]

\* catch (err) (lines 57-60)
caught(error) ==
    [status |-> [kind |-> "uploadFailed", error |-> error],
     isProcessing |-> FALSE]

\* The flow of onDrop that has ended, with how far it came.
Ended(uploaded, analyzed) ==
    [type |-> "ended", file |-> flow.file, uploaded |-> uploaded,
     analyzed |-> analyzed]

InitUpload ==
    /\ NoUpload
    /\ NoDetection
    /\ NoExtraction
    /\ NoLayout
    /\ items = <<>>
    /\ columns = <<>>
    /\ table = Idle
    /\ ordered = <<>>
    /\ doc = Idle
    /\ content = <<>>
    /\ pageIdx = 0
    /\ heading = Idle
    /\ stats = Idle
    /\ pc = "ready"

\* A drop without an accepted file: if (!file) return.  The dropzone takes
\* drops only while it is not disabled.
DropNothing ==
    /\ pc = "ready"
    /\ ~isProcessing
    /\ UNCHANGED vars

\* A file is dropped (lines 16-24): the flag and the status are set and the
\* upload request is sent.
Drop ==
    /\ pc = "ready"
    /\ ~isProcessing
    /\ \E file \in Files : flow' = [type |-> "running", file |-> file]
    /\ isProcessing' = TRUE
    /\ status' = [kind |-> "uploading"]
    /\ pc' = "upload"
    /\ UNCHANGED <<items, columns, table, ordered, doc, content, pageIdx,
                   heading, stats, mathVars, extractVars, layoutVars,
                   file_name, meta_data>>

\* The upload answers ok (lines 29-32); the analysis request is sent.
UploadAccepted ==
    /\ pc = "upload"
    /\ file_name' = StoredName(flow.file)
    /\ status' = [kind |-> "uploaded", file |-> flow.file]
    /\ pc' = "analyze"
    /\ UNCHANGED <<items, columns, table, ordered, doc, content, pageIdx,
                   heading, stats, mathVars, extractVars, layoutVars,
                   meta_data, isProcessing, flow>>

\* The upload answers with an error status (lines 33-36).
UploadRejected ==
    /\ pc = "upload"
    /\ \E error \in Errors :
          /\ status' = uploadFailed(error).status
          /\ isProcessing' = uploadFailed(error).isProcessing
    /\ flow' = Ended(FALSE, FALSE)
    /\ pc' = "ready"
    /\ UNCHANGED <<items, columns, table, ordered, doc, content, pageIdx,
                   heading, stats, mathVars, extractVars, layoutVars,
                   file_name, meta_data>>

\* fetch or response.json() throws during the upload (lines 57-60).
UploadThrows ==
    /\ pc = "upload"
    /\ \E error \in Errors :
          /\ status' = caught(error).status
          /\ isProcessing' = caught(error).isProcessing
    /\ flow' = Ended(FALSE, FALSE)
    /\ pc' = "ready"
    /\ UNCHANGED <<items, columns, table, ordered, doc, content, pageIdx,
                   heading, stats, mathVars, extractVars, layoutVars,
                   file_name, meta_data>>

\* The analysis answers ok (lines 51-55).
AnalysisAccepted ==
    /\ pc = "analyze"
    /\ \E page_count \in 1..MaxPageCount :
          /\ meta_data' = [file_name |-> file_name, page_count |-> page_count]
          /\ status' = [kind |-> "success", file |-> flow.file,
                        page_count |-> page_count]
    /\ isProcessing' = FALSE
    /\ flow' = Ended(TRUE, TRUE)
    /\ pc' = "ready"
    /\ UNCHANGED <<items, columns, table, ordered, doc, content, pageIdx,
                   heading, stats, mathVars, extractVars, layoutVars,
                   file_name>>

\* The analysis answers with an error status (lines 44-50).
AnalysisRejected ==
    /\ pc = "analyze"
    /\ \E error \in Errors :
          /\ status' = analysisFailed(error).status
          /\ isProcessing' = analysisFailed(error).isProcessing
    /\ flow' = Ended(TRUE, FALSE)
    /\ pc' = "ready"
    /\ UNCHANGED <<items, columns, table, ordered, doc, content, pageIdx,
                   heading, stats, mathVars, extractVars, layoutVars,
                   file_name, meta_data>>

\* fetch or analyze_response.json() throws during the analysis.
AnalysisThrows ==
    /\ pc = "analyze"
    /\ \E error \in Errors :
          /\ status' = caught(error).status
          /\ isProcessing' = caught(error).isProcessing
    /\ flow' = Ended(TRUE, FALSE)
    /\ pc' = "ready"
    /\ UNCHANGED <<items, columns, table, ordered, doc, content, pageIdx,
                   heading, stats, mathVars, extractVars, layoutVars,
                   file_name, meta_data>>

NextUpload ==
    \/ DropNothing
    \/ Drop
    \/ UploadAccepted
    \/ UploadRejected
    \/ UploadThrows
    \/ AnalysisAccepted
    \/ AnalysisRejected
    \/ AnalysisThrows

SpecUpload == InitUpload /\ [][NextUpload]_vars

-----------------------------------------------------------------------------
(* Properties of detectTable *)

RowLengths(t) == {Len(t.rows[k].cells) : k \in 1..Len(t.rows)}

\* C1: whenever detectTable returns a Table, every row of it has the same
\* number of cells as every other row.
C1_Rectangular ==
    table.type = "table" => Cardinality(RowLengths(table)) = 1

\* A Table was returned for a page one of whose rows holds a short cell.
C1_Witness ==
    /\ pc = "done"
    /\ table.type = "table"
    /\ \E k \in 1..Len(table.rows) : \E c \in 1..Len(table.rows[k].cells) :
           StrLen(Trim(table.rows[k].cells[c].text)) <= 3

\* C2: a token list that yields fewer than 5 candidate rows gives null.
C2_FewRowsGiveNull ==
    (pc = "done" /\ Len(tableRows(items)) < 5) => table = NullTable

IsGrid(its, R, C) ==
    /\ Len(its) = R * C
    /\ {its[i] : i \in 1..Len(its)} = {GridCell(r, c) : r \in 1..R, c \in 1..C}

\* Four perfectly aligned rows of three columns were rejected.
C2_Witness ==
    /\ pc = "done"
    /\ IsGrid(items, 4, 3)
    /\ table = NullTable

C4_RowsTopToBottom ==
    table.type = "table" =>
        \A j, k \in 1..Len(table.rows) :
            j < k =>
                \A a \in 1..Len(table.rows[j].cells) :
                    \A b \in 1..Len(table.rows[k].cells) :
                        table.rows[j].cells[a].y > table.rows[k].cells[b].y

\* Number of rows that have a cell of column index col, and the sum of the
\* x of those cells.
RowsHaving(rows, col) ==
    Cardinality({j \in 1..Len(rows) : Len(rows[j]) >= col})

SumOfX(rows, col) ==
    SumSeq([j \in 1..Len(rows) |->
               IF Len(rows[j]) >= col THEN rows[j][col].x ELSE 0])

\* Some cell is 30 units or more from the mean x of its column index:
\* |x - sum / n| >= 30, cleared of the division.
SomeCellOff(rows) ==
    \E col \in 1..(MaxCols + 1) :
        LET n == RowsHaving(rows, col)
            sum == SumOfX(rows, col)
        IN  \E k \in 1..Len(rows) :
                /\ Len(rows[k]) >= col
                /\ Abs(rows[k][col].x * n - sum) >= 300 * n

\* Some cell is exactly 30 units from the mean x of its column index.
SomeCellAtThirty(rows) ==
    \E col \in 1..(MaxCols + 1) : \E k \in 1..Len(rows) :
        /\ Len(rows[k]) >= col
        /\ Abs(rows[k][col].x * RowsHaving(rows, col) - SumOfX(rows, col))
               = 300 * RowsHaving(rows, col)

\* C17: detectTable returns null whenever some cell of a candidate row has
\* an x that is 30 units or more away from the mean x of its column index
\* (the cells of a row counted from left to right) over all candidate rows.
C17_MisalignedGivesNull ==
    (pc = "done" /\ table # NullTable) => ~SomeCellOff(sortedRows(items))

\* Five rows of two cells each, the first cell of one row 37.5 units to the
\* right of the others, exactly 30 units from the mean of its column, gave
\* null.
C17_Witness ==
    /\ pc = "done"
    /\ table = NullTable
    /\ Len(items) = 10
    /\ LET rows == sortedRows(items)
       IN  /\ Len(rows) = 5
           /\ \A k \in 1..5 : Len(rows[k]) = 2
           /\ SomeCellAtThirty(rows)

-----------------------------------------------------------------------------
(* Properties of determineHeadingLevel *)

\* Position of a level in the band order 1, 2, 3, 0.
Band(level) == IF level = 0 THEN 4 ELSE level

Signals(call) ==
    <<styleScore(call.item), upperScore(call.item),
      layoutScore(call.item, call.pageWidth), lengthScore(call.item),
      StrLen(Trim(call.item.text)) <= 120>>

BandOfRatio(call) ==
    (call.level # -1 /\ StrLen(Trim(call.item.text)) <= 120) =>
        /\ 10 * call.item.fontSize >= 18 * call.body => call.level = 1
        /\ (/\ 10 * call.item.fontSize >= 14 * call.body
            /\ 10 * call.item.fontSize < 18 * call.body) => call.level = 2
        /\ (/\ 10 * call.item.fontSize >= 11 * call.body
            /\ 10 * call.item.fontSize < 14 * call.body) => call.level = 3

LowerRatioLaterBand ==
    (/\ heading.level # -1
     /\ heading'.level # -1
     /\ StrLen(Trim(heading.item.text)) <= 120
     /\ Signals(heading') = Signals(heading)
     /\ heading'.item.fontSize * heading.body
            <= heading.item.fontSize * heading'.body)
        => Band(heading'.level) >= Band(heading.level)

-----------------------------------------------------------------------------
(* Properties of processDocumentStructure *)

Headings == {k \in 1..Len(content) : content[k].type = "heading"}

\* C5: a token whose trimmed text is longer than 120 characters never
\* produces a Heading item in the structured content.
C5_LongTextNeverHeading ==
    \A k \in Headings : StrLen(content[k].text) <= 120

\* C7: every Heading item in the structured content has level 1, 2 or 3; a
\* token that scores level 0 is a paragraph, not a Heading.
C7_HeadingLevels ==
    \A k \in Headings : content[k].level \in {1, 2, 3}

CountWord(text, w) == Cardinality({i \in 1..Len(text) : text[i] = w})

\* The text items (paragraphs and headings) of a page, in order.
TextItemsOf(pageNumber) ==
    SelectSeq(content, LAMBDA c :
        c.pageNumber = pageNumber /\ c.type \in {"paragraph", "heading"})

PageText(pageNumber) ==
    LET its == TextItemsOf(pageNumber)
    IN  Flatten([k \in 1..Len(its) |-> its[k].text])

TokenText(page) ==
    Flatten([k \in 1..Len(page.items) |-> page.items[k].text])

\* C9: in a document that is not scanned, the text of every token of a
\* structured page occurs exactly once in the text of the page's Paragraph
\* and Heading items: each word occurs there as often as in the tokens.
C9_TextPreserved ==
    (doc # Idle /\ ~doc.isScanned) =>
        \A p \in 1..pageIdx : \A w \in 1..Len(Words) :
            CountWord(PageText(p), w) = CountWord(TokenText(doc.pages[p]), w)

\* A page of three tokens, two of them with the same text and one a
\* heading, has been structured into a Heading and Paragraphs.
C9_Witness ==
    /\ pc = "done"
    /\ ~doc.isScanned
    /\ Len(doc.pages[1].items) = 3
    /\ CountWord(TokenText(doc.pages[1]), 2) = 2
    /\ Headings # {}
    /\ \E k \in 1..Len(content) : content[k].type = "paragraph"

\* Place of an item kind within a page.
Rank(type) ==
    CASE type \in {"paragraph", "heading"} -> 1
      [] type = "table" -> 2
      [] type = "figure" -> 3
      [] type = "equation" -> 4

ItemsOfType(pageNumber, type) ==
    SelectSeq(content, LAMBDA c : c.pageNumber = pageNumber /\ c.type = type)

\* C15: within one page the structured content lists all Paragraph and
\* Heading items first, then the Table item if the page has a table, then
\* the Figure items in detection order, then the Equation items in
\* detection order with index 0, 1, 2, ...; pages follow one another in page
\* order.
C15_ItemOrder ==
    (doc # Idle /\ ~doc.isScanned) =>
        /\ \A j, k \in 1..Len(content) :
               j < k =>
                   \/ content[j].pageNumber < content[k].pageNumber
                   \/ /\ content[j].pageNumber = content[k].pageNumber
                      /\ Rank(content[j].type) <= Rank(content[k].type)
        /\ \A p \in 1..pageIdx :
               LET page == doc.pages[p]
                   tables == ItemsOfType(p, "table")
                   figures == ItemsOfType(p, "figure")
                   eqs == ItemsOfType(p, "equation")
               IN  /\ Len(tables) = IF page.hasTable THEN 1 ELSE 0
                   /\ \A k \in 1..Len(tables) : tables[k].table = page.table
                   /\ Len(figures) = Len(page.figures)
                   /\ \A k \in 1..Len(figures) :
                          figures[k].figure = page.figures[k]
                   /\ Len(eqs) = Len(page.equations)
                   /\ \A k \in 1..Len(eqs) :
                          /\ eqs[k].equation = page.equations[k]
                          /\ eqs[k].equationIndex = k - 1

\* Two pages, each with a heading, a paragraph, figures and equations, the
\* first also with a table, have been structured.
C15_Witness ==
    /\ pc = "done"
    /\ ~doc.isScanned
    /\ Len(doc.pages) = 2
    /\ \A p \in 1..2 :
           /\ Len(ItemsOfType(p, "heading")) = 1
           /\ Len(ItemsOfType(p, "paragraph")) = 1
           /\ Len(ItemsOfType(p, "figure")) = 2
           /\ Len(ItemsOfType(p, "equation")) = 2
    /\ Len(ItemsOfType(1, "table")) = 1
    /\ Len(ItemsOfType(2, "table")) = 0

-----------------------------------------------------------------------------
(* Properties of createReadingOrder *)

\* b may follow a in a sequence sorted by y descending, tokens less than 5
\* units apart in y being ordered by x ascending.
InOrder(a, b) ==
    IF Abs(a.y - b.y) < 50 THEN a.x <= b.x ELSE a.y > b.y

Rearrangements(s) ==
    {[k \in 1..Len(s) |-> s[q[k]]] : q \in RowOrders(Len(s))}

\* C8: with at most one column, createReadingOrder returns the tokens sorted
\* by y descending, tokens less than 5 units apart in y ordered by x
\* ascending, and returns the same sequence for every initial order of the
\* input tokens.
C8_SingleColumnOrder ==
    (pc = "done" /\ Len(columns) <= 1) =>
        /\ \A j, k \in 1..Len(ordered) :
               j < k => InOrder(ordered[j], ordered[k])
        /\ \A other \in Rearrangements(ordered) :
               createReadingOrder(other, columns) = ordered

\* y rounded to the nearest multiple of 5 units, a half rounded up.
NearestFive(y) ==
    LET low == (y \div 50) * 50
    IN  IF y - low < 25 THEN low ELSE low + 50

\* C18: on a page with two or more columns, createReadingOrder emits the
\* tokens band by band: the y-bands (token y rounded to the nearest 5) come
\* in descending order and, inside one band, the tokens come in column
\* index order, so no token of a lower band precedes a token of a higher
\* band.
C18_BandByBand ==
    (pc = "done" /\ Len(columns) >= 2) =>
        \A j, k \in 1..Len(ordered) :
            j < k =>
                \/ NearestFive(ordered[j].y) > NearestFive(ordered[k].y)
                \/ /\ NearestFive(ordered[j].y) = NearestFive(ordered[k].y)
                   /\ ordered[j].column <= ordered[k].column

\* Two columns and three tokens: the right column's token of the upper band
\* came out before the left column's token of a lower band, and two tokens
\* with different y fell into one band.
C18_Witness ==
    /\ pc = "done"
    /\ Len(columns) = 2
    /\ Len(ordered) = 3
    /\ ordered[1].column = 1
    /\ ordered[2].column = 0
    /\ ordered[3].column = 1
    /\ ordered[2].y # ordered[3].y
    /\ NearestFive(ordered[2].y) = NearestFive(ordered[3].y)

\* C19: on a page with two or more columns the reading order is
\* column-major and top to bottom: every token of a column is emitted
\* before any token of a column further right, and inside a column no token
\* comes after a token that lies 5 units or more below it.
C19_ColumnMajor ==
    (pc = "done" /\ Len(columns) >= 2) =>
        \A j, k \in 1..Len(ordered) :
            j < k =>
                /\ ordered[j].column <= ordered[k].column
                /\ ordered[j].column = ordered[k].column =>
                       ordered[k].y - ordered[j].y < 50

-----------------------------------------------------------------------------
(* Properties of the font statistics *)

\* The counted tokens of the request, pages and tokens in iteration order.
Counted ==
    SelectSeq(allItems(stats.extraction.pages),
              LAMBDA item : StrLen(item.text) > 0 /\ item.fontSize > 0)

TotalOf(size) ==
    SumSeq([k \in 1..Len(Counted) |->
               IF Counted[k].fontSize = size THEN StrLen(Counted[k].text) ELSE 0])

CountedSizes == {Counted[k].fontSize : k \in 1..Len(Counted)}

Greatest == {s \in CountedSizes : \A u \in CountedSizes : TotalOf(u) <= TotalOf(s)}

\* Position of the first counted token of a size.
FirstSeen(size) ==
    CHOOSE k \in 1..Len(Counted) :
        /\ Counted[k].fontSize = size
        /\ \A j \in 1..(k - 1) : Counted[j].fontSize # size

Analyzed == pc = "done" /\ stats # Idle /\ stats.extraction.ok /\ Counted # <<>>

\* C10 as stated: bodyFontSize is the size with the greatest total character
\* count, and of several sizes sharing the greatest total the one met first
\* in iteration order.
C10_BodyFontFirstOnTie ==
    Analyzed =>
        /\ doc.body_font_size \in Greatest
        /\ \A s \in Greatest : FirstSeen(doc.body_font_size) <= FirstSeen(s)

\* C10 as amended: bodyFontSize is the size with the greatest total character
\* count over all pages (tokens with empty text or size 0 not counted), and
\* of several sizes sharing the greatest total the one met last in iteration
\* order.
C10_BodyFontLastOnTie ==
    Analyzed =>
        /\ doc.body_font_size \in Greatest
        /\ \A s \in Greatest : FirstSeen(doc.body_font_size) >= FirstSeen(s)

\* Two sizes shared the greatest total and a third had less.
C10_Witness ==
    /\ Analyzed
    /\ Cardinality(Greatest) = 2
    /\ Cardinality(CountedSizes) = 3
    /\ doc.body_font_size \in Greatest

\* The pages in their order, the tokens of each page in every order.
RECURSIVE ItemOrders(_)
ItemOrders(pages) ==
    IF pages = <<>> THEN {<<>>}
    ELSE {<<[Head(pages) EXCEPT !.items = r]>> \o rest :
             r \in Rearrangements(Head(pages).items),
             rest \in ItemOrders(Tail(pages))}

\* Every order of the pages and, within each page, of its tokens.
PageOrders(pages) ==
    UNION {ItemOrders([k \in 1..Len(pages) |-> pages[q[k]]]) :
             q \in RowOrders(Len(pages))}

BodyFontSizeOf(pages) ==
    analyze([stats.extraction EXCEPT !.pages = pages],
            stats.page_count).body_font_size

\* C11 as stated: for a fixed multiset of (fontSize, textLength) pairs the
\* selected bodyFontSize is the same for every order of the tokens within
\* pages and every order of the pages.
C11_OrderIndependent ==
    Analyzed =>
        \A other \in PageOrders(stats.extraction.pages) :
            BodyFontSizeOf(other) = doc.body_font_size

\* C11 as amended: when a single font size has the greatest total character
\* count, the selected bodyFontSize is the same for every order of the
\* tokens within pages and every order of the pages.
C11_OrderIndependentWithoutTie ==
    (Analyzed /\ Cardinality(Greatest) = 1) =>
        \A other \in PageOrders(stats.extraction.pages) :
            BodyFontSizeOf(other) = doc.body_font_size

\* Two pages with tokens of two sizes, the size of the second page having
\* the greatest total alone.
C11_Witness ==
    /\ Analyzed
    /\ Cardinality(Greatest) = 1
    /\ Cardinality(CountedSizes) = 2
    /\ Len(stats.extraction.pages) = 2
    /\ stats.extraction.pages[1].items # <<>>
    /\ stats.extraction.pages[2].items # <<>>
    /\ doc.body_font_size = stats.extraction.pages[2].items[1].fontSize
    /\ doc.body_font_size # stats.extraction.pages[1].items[1].fontSize

\* C12: when extraction succeeds, isScanned is true exactly when the total
\* extracted text length is below 100 or the total divided by the page count
\* is below 20; when extraction fails isScanned is true.
C12_ScannedFloors ==
    (pc = "done" /\ stats # Idle) =>
        IF stats.extraction.ok
        THEN doc.isScanned <=>
                 \/ stats.extraction.totalTextLength < 100
                 \/ \E q \in 0..19 :
                        /\ q * stats.page_count <= stats.extraction.totalTextLength
                        /\ stats.extraction.totalTextLength
                               < (q + 1) * stats.page_count
        ELSE doc.isScanned

\* 119 characters on 6 pages: above the absolute floor, below 20 per page.
C12_Witness ==
    /\ pc = "done"
    /\ stats # Idle
    /\ stats.extraction.ok
    /\ stats.extraction.totalTextLength = 119
    /\ stats.page_count = 6
    /\ doc.isScanned

-----------------------------------------------------------------------------
(* Properties of detectMathEquations *)

\* C14: every Equation emitted by detectMathEquations, for any token
\* sequence, contains at least 3 tokens: a span that closes with 1 or 2
\* tokens is discarded however it closes (non-matching token, math token
\* outside the vertical band, or end of input).
C14_EquationsHaveThreeTokens ==
    \A k \in 1..Len(equations) : Len(equations[k].items) >= 3

\* The token the next turn of the loop visits.
NextToken == items[itemIndex + 1]

\* A turn of the loop that visits a non-math token.
NonMathTurn ==
    /\ pc = "detectMathEquations"
    /\ itemIndex < Len(items)
    /\ itemIndex' = itemIndex + 1
    /\ ~hasMathSymbol(NextToken.text)

\* The token is one character of the class (a letter, digit, operator,
\* bracket, point, comma or white space) and less than 10 units from the
\* span's start y.
MayExtend ==
    /\ Len(NextToken.text) = 1
    /\ NextToken.text[1] \in {Blank, 14, 15, 18, 20}
    /\ Abs(NextToken.y - equationStartY) < 100

NonMathTokenRule ==
    NonMathTurn =>
        IF currentEquation = <<>>
        THEN currentEquation' = <<>> /\ equationStartY' = equationStartY
        ELSE IF MayExtend
        THEN currentEquation' = Append(currentEquation, NextToken)
        ELSE currentEquation' = <<>>

\* C20: a non-math token is added to the open span only when its text is in
\* the equation-safe character class and its y is within 10 units of the
\* span's start y; any other non-math token closes the span, and a non-math
\* token met while no span is open starts none.
C20_NonMathTokens == [][NonMathTokenRule]_vars

\* The span of the summation sign and "i=1" at y = 500 took "n" at
\* y = 498, and the word "ab" on the same line has closed it.
C20_Witness ==
    /\ pc = "detectMathEquations"
    /\ itemIndex = 4
    /\ items[3] = MathTok(<<14>>, 4980)
    /\ items[4] = MathTok(<<1>>, 5000)
    /\ currentEquation = <<>>
    /\ Len(equations) = 1
    /\ Len(equations[1].items) = 3

-----------------------------------------------------------------------------
(* Properties of the pipeline *)

DetectorNames == {"detectTable", "detectFigures", "detectMathEquations"}

\* C13: for a document with isScanned = true, the structured content is
\* exactly one item, the scanned-notice paragraph, and the table, figure and
\* equation detectors are not invoked on any of its pages.
C13_ScannedSkipsDetectors ==
    (pc = "done" /\ doc.isScanned) =>
        /\ content = <<ScannedNotice>>
        /\ \A k \in 1..Len(calls) : calls[k].name \notin DetectorNames

\* The pages of the uploaded document that have no token.
EmptyPages ==
    {p \in 1..Len(pdf.pages) : normalize(pdf.pages[p]) = <<>>}

\* C16: a page with zero tokens raises no error in any stage (column,
\* table, figure and equation detection, reading order, text building,
\* structuring) and contributes no structured content item for that page:
\* the extraction of a document the PDF library reads does not fail, every
\* stage returns its empty result for the page, and no item of the
\* structured content carries the page's number.
C16_EmptyPageIsSilent ==
    \A p \in EmptyPages :
        /\ pdf.failsAt = 0 => stats.extraction.ok
        /\ (stats.extraction.ok /\ p <= Len(stats.extraction.pages)) =>
               LET page == stats.extraction.pages[p]
               IN  /\ page.columns = 0
                   /\ ~page.hasTable
                   /\ page.figures = <<>>
                   /\ page.equations = <<>>
                   /\ page.text = <<>>
                   /\ page.structures = <<>>
                   /\ page.items = <<>>
        /\ \A k \in 1..Len(content) : content[k].pageNumber # p

\* A document of a page without tokens and a page with text, not scanned,
\* has been extracted and structured token by token.
C16_Witness ==
    /\ pc = "done"
    /\ pdf.failsAt = 0
    /\ Len(pdf.pages) = 2
    /\ pdf.pages[1] = <<>>
    /\ ~doc.isScanned
    /\ pageIdx = 2
    /\ content # <<>>
    /\ \A k \in 1..Len(content) : content[k].pageNumber = 2

-----------------------------------------------------------------------------
(* Properties of detectFigures *)

\* Positions of the tokens that match the label pattern, in list order.
LabelPositions ==
    SelectSeq([k \in 1..Len(items) |-> k], LAMBDA k : matchesFigure(items[k]))

Followers(k) ==
    {j \in (k + 1)..(k + 9) : j <= Len(items)}

\* Less than 20 units above and less than 30 units below the label.
InWindow(k, j) ==
    /\ items[j].y - items[k].y < 200
    /\ items[k].y - items[j].y < 300

\* The label text followed by the texts of the tokens at the positions S,
\* each after a blank, trimmed.
CaptionWith(k, S) ==
    Trim(items[k].text
         \o Flatten([j \in 1..Len(items) |->
                        IF j \in S THEN <<Blank>> \o items[j].text ELSE <<>>]))

\* The followers up to the first one outside the window.
UpToFirstOutside(k) ==
    {j \in Followers(k) : \A i \in Followers(k) : i <= j => InWindow(k, i)}

\* The followers inside the window up to the first one 30 units or more
\* below the label.
InsideUpToFirstBelow(k) ==
    {j \in Followers(k) :
        /\ InWindow(k, j)
        /\ \A i \in Followers(k) :
               i < j => items[k].y - items[i].y < 300}

\* C21: the caption of every figure is the label text followed by the texts
\* of the following tokens, at most 9 of them, up to the first one that is
\* outside the window (20 units above, 30 units below); no token after that
\* one is appended.
C21_CaptionStopsOutsideWindow ==
    pc \in {"detectFigures", "done"} =>
        \A f \in 1..Len(figureList) :
            figureList[f].caption
                = CaptionWith(LabelPositions[f],
                              UpToFirstOutside(LabelPositions[f]))

\* C21, amended: the caption is the label text followed by the texts of
\* those of the 9 following tokens that are inside the window and come
\* before the first token 30 units or more below the label; a token 20
\* units or more above the label is passed over and does not end the
\* caption.
C21_CaptionStopsBelowWindow ==
    pc \in {"detectFigures", "done"} =>
        \A f \in 1..Len(figureList) :
            figureList[f].caption
                = CaptionWith(LabelPositions[f],
                              InsideUpToFirstBelow(LabelPositions[f]))

\* A figure whose label is followed by a token 20 units or more above it
\* and then by a token inside the window.
C21_Witness ==
    /\ pc = "done"
    /\ figureList # <<>>
    /\ \E i, j \in Followers(LabelPositions[1]) :
          /\ i < j
          /\ items[i].y - items[LabelPositions[1]].y >= 200
          /\ InWindow(LabelPositions[1], j)

-----------------------------------------------------------------------------
(* Properties of detectColumns *)

\* The clusters that hold at least 3 distinct left edges.
Surviving(cl) == {c \in 1..Len(cl) : Cardinality({cl[c].positions[k] :
                                          k \in 1..Len(cl[c].positions)}) >= 3}

\* Column col is centered on the mean of cluster c.
CenteredOn(col, c) ==
    col.centerX * Len(c.positions) = SumSeq(c.positions) * col.scale

\* startX = centerX - 20; endX is the midpoint between centerX and the next
\* column's centerX, or the page width for the last column; the centers
\* ascend.
BoundedAsStated(cols, k) ==
    /\ cols[k].startX = cols[k].centerX - 200 * cols[k].scale
    /\ IF k < Len(cols)
       THEN /\ 2 * cols[k].endX * cols[k + 1].scale
                  = cols[k].centerX * cols[k + 1].scale
                        + cols[k + 1].centerX * cols[k].scale
            /\ cols[k].centerX * cols[k + 1].scale
                  < cols[k + 1].centerX * cols[k].scale
       ELSE cols[k].endX = PageWidth * cols[k].scale

ColumnsAsStated(cols, cl) ==
    /\ Len(cols) = Cardinality(Surviving(cl))
    /\ \A c \in Surviving(cl) : \E k \in 1..Len(cols) : CenteredOn(cols[k], cl[c])
    /\ \A k \in 1..Len(cols) : BoundedAsStated(cols, k)
    /\ Len(cols) <= 1 =>
           \A k \in 1..Len(items) :
               ~hasColumn(createReadingOrder(items, cols)[k])

\* C22: detectColumns returns one Column per cluster of at least 3 distinct
\* left edges of substantial tokens, sorted by centerX ascending, with
\* startX = centerX - 20 and endX the midpoint to the next column's centerX
\* or the page width for the last column; with 0 or 1 such clusters the page
\* is read as a single column.
C22_ColumnPerCluster ==
    pc = "done" => ColumnsAsStated(columns, clusterList)

\* Two columns have been returned, from a page that also has a cluster of
\* fewer than 3 left edges.
C22_Witness ==
    /\ pc = "done"
    /\ Len(columns) = 2
    /\ Len(clusterList) > 2

\* The distance between x and the center of cluster c, times the number n
\* of positions of cluster d, is at most that between x and the center of d
\* times the number of positions of c.
NotFurther(c, d, x) ==
    Abs(SumSeq(c.positions) - x * Len(c.positions)) * Len(d.positions)
        <= Abs(SumSeq(d.positions) - x * Len(d.positions)) * Len(c.positions)

\* What a turn of the clustering loop does with the left edge x.
MergedIntoNearest(x) ==
    IF \E k \in 1..Len(clusterList) : nearCluster(clusterList[k], x)
    THEN \E k \in 1..Len(clusterList) :
             /\ nearCluster(clusterList[k], x)
             /\ \A j \in 1..Len(clusterList) :
                    NotFurther(clusterList[k], clusterList[j], x)
             /\ clusterList' =
                    [clusterList EXCEPT ![k].positions = Append(@, x)]
    ELSE clusterList' = Append(clusterList, [positions |-> <<x>>])

\* C23: each x value is merged into the nearest existing cluster whose
\* center is less than 40 units away, and starts a new cluster only when no
\* cluster center is within 40 units; the first cluster within the threshold,
\* which the code picks, is always that nearest cluster.
C23_NearestCluster ==
    [][(pc = "cluster" /\ pendingX # <<>>) => MergedIntoNearest(Head(pendingX))]_vars

\* A left edge has been merged into the second of two clusters, and another
\* one has started a third cluster.
C23_Witness ==
    /\ pc = "cluster"
    /\ Len(clusterList) = 3
    /\ Len(clusterList[2].positions) >= 2

-----------------------------------------------------------------------------
(* Properties of buildStructuredText *)

ColumnChange(prev, item) ==
    hasColumn(prev) /\ hasColumn(item) /\ prev.column # item.column

\* The separator by the stated priority; gaps and sizes are in tenths.
StatedSeparator(prev, item) ==
    LET verticalGap == prev.y - item.y
        horizontalGap == item.x - (prev.x + prev.width)
    IN  IF ColumnChange(prev, item) THEN <<Newline, Newline>>
        ELSE IF 10 * verticalGap > 25 * item.fontSize
        THEN <<Newline, Newline>>
        ELSE IF verticalGap > 50 /\ 10 * verticalGap <= 25 * item.fontSize
        THEN <<Newline>>
        ELSE IF 10 * horizontalGap > item.fontSize THEN <<Blank>>
        ELSE <<>>

\* The text grows by the stated separator and the token's text, which
\* keeps its leading white space only when there is no separator.
JoinedAsStated(prev, item) ==
    textSoFar' = textSoFar \o StatedSeparator(prev, item)
                     \o (IF StatedSeparator(prev, item) = <<>>
                         THEN item.text ELSE TrimStart(item.text))

\* The loop is about to join a token that is no bullet to a predecessor.
JoinTurn ==
    /\ pc = "join"
    /\ itemIndex >= 1
    /\ itemIndex < Len(ordered)
    /\ ~isBulletPoint(ordered[itemIndex + 1])

-----------------------------------------------------------------------------
(* Heading levels in the structured content *)

\* The tokens of the page of content item k that can have given it its
\* text and size.
TokensOfHeading(k) ==
    {t \in {doc.pages[content[k].pageNumber].items[i] :
               i \in 1..Len(doc.pages[content[k].pageNumber].items)} :
        Trim(t.text) = content[k].text /\ t.fontSize = content[k].fontSize}

\* C25: a heading token is scored with the centering signal taken against
\* the width of its page: its level is the one determineHeadingLevel gives
\* when the estimated text center is compared with the page's center and a
\* tenth of the page's width.
C25_CenteringUsesPageWidth ==
    pc = "structure" =>
        \A k \in Headings :
            \E t \in TokensOfHeading(k) :
                content[k].level
                    = determineHeadingLevel(
                          t, doc.body_font_size,
                          doc.pages[content[k].pageNumber].width)

-----------------------------------------------------------------------------
(* Properties of the extracted pages *)

\* The pages extracted so far.
Extracted ==
    IF pc \in {"extract", "analyze"} /\ stats.extraction.ok
    THEN 1..Len(stats.extraction.pages) ELSE {}

PositiveSize(its) == SelectSeq(its, LAMBDA item : item.fontSize > 0)

\* The detectors' results for page p are those for its tokens of positive
\* size, and no table cell or equation token has size 0.
ZeroSizeIgnored(p) ==
    LET page == stats.extraction.pages[p]
    IN  /\ page.columns
              = Len(detectColumns(PositiveSize(normalize(pdf.pages[p])),
                                  PageWidth))
        /\ \A r \in 1..Len(page.table.rows) :
               \A c \in 1..Len(page.table.rows[r].cells) :
                   page.table.rows[r].cells[c].fontSize > 0
        /\ page.figures = detectFigures(PositiveSize(normalize(pdf.pages[p])))
        /\ \A e \in 1..Len(page.equations) :
               \A i \in 1..Len(page.equations[e].items) :
                   page.equations[e].items[i].fontSize > 0

\* C26: a token with fontSize 0 is filtered out before every detector: it
\* takes no part in column clustering, is no table cell, contributes to no
\* figure caption, is part of no equation, and is not counted in the
\* body-font statistics.
C26_ZeroSizeFiltered ==
    /\ \A p \in Extracted : ZeroSizeIgnored(p)
    /\ (pc \in {"structure", "structureByLine"} /\ stats.extraction.ok)
           => doc.body_font_size > 0

\* C28: after buildStructuredText the items stored on a page are in the
\* order the normalizer produced them, the order the figure and equation
\* detectors scanned.
C28_ItemsLeftInOrder ==
    \A p \in Extracted :
        stats.extraction.pages[p].items = normalize(pdf.pages[p])

-----------------------------------------------------------------------------
(* The reading order as a rearrangement *)

\* The token without the column it was assigned to.
Token(t) ==
    [text |-> t.text, x |-> t.x, y |-> t.y, width |-> t.width,
     height |-> t.height, fontSize |-> t.fontSize, fontName |-> t.fontName]

Occurrences(s, t) == Cardinality({k \in 1..Len(s) : Token(s[k]) = t})

\* Every token of s occurs in r as often as in s, and r is as long as s.
IsPermutation(r, s) ==
    /\ Len(r) = Len(s)
    /\ \A i \in 1..Len(s) :
           Occurrences(r, Token(s[i])) = Occurrences(s, Token(s[i]))

\* C27: createReadingOrder returns a permutation of its input for every
\* token list and every column list: each input token appears exactly once
\* in the output, also a token whose horizontal center lies in no column
\* band, which is placed in column 0.
C27_Permutation ==
    [][pc = "createReadingOrder" =>
          /\ IsPermutation(ordered', items)
          /\ \A k \in 1..Len(ordered') :
                 (hasColumn(ordered'[k]) /\ columnOfOrNone(ordered'[k], columns) = -1)
                     => ordered'[k].column = 0]_vars

\* Two columns, and a token between their bands has come out in column 0.
C27_Witness ==
    /\ pc = "done"
    /\ Len(columns) = 2
    /\ Len(ordered) = 3
    /\ \E k \in 1..Len(ordered) :
          /\ 2 * ordered[k].x + ordered[k].width > 2 * columns[1].endX
          /\ 2 * ordered[k].x + ordered[k].width < 2 * columns[2].startX
          /\ ordered[k].column = 0

-----------------------------------------------------------------------------
(* The vertical band of an equation *)

\* C29: every token of an emitted Equation has a y less than 10 units from
\* the Equation's y, which is the y of the span's first token, for every
\* token sequence, tokens with y = 0 included.
C29_TokensInBand ==
    \A k \in 1..Len(equations) :
        /\ equations[k].y = equations[k].items[1].y
        /\ \A i \in 1..Len(equations[k].items) :
               Abs(equations[k].items[i].y - equations[k].y) < 100

-----------------------------------------------------------------------------
(* Properties of the upload page *)

\* The flag is set exactly while a flow of onDrop is running.
FlagFollowsFlow ==
    isProcessing <=> (pc \in {"upload", "analyze"} /\ flow.type = "running")

\* The metadata changes only at the end of a flow whose upload and analysis
\* both succeeded.
MetaDataOnlyOnSuccess ==
    meta_data' # meta_data =>
        /\ pc = "analyze"
        /\ flow'.type = "ended"
        /\ flow'.uploaded
        /\ flow'.analyzed

\* C30: isProcessing becomes true when a file is dropped and is false again
\* on every way the flow can end (upload rejected, analysis rejected,
\* exception thrown, success), so the dropzone is never left disabled once
\* the flow has ended; the analysis metadata is set only when both the upload
\* and the analysis succeeded.
C30_ProcessingEnds ==
    [](pc \in {"ready", "upload", "analyze"} => FlagFollowsFlow)
        /\ [][MetaDataOnlyOnSuccess]_vars

\* After a successful flow, a second flow has ended with a rejected
\* analysis: the dropzone is enabled and the metadata is the first file's.
C30_Witness ==
    /\ pc = "ready"
    /\ flow.type = "ended"
    /\ flow.uploaded
    /\ ~flow.analyzed
    /\ status.kind = "analysisFailed"
    /\ ~isProcessing
    /\ meta_data # [type |-> "null"]
    /\ meta_data.file_name # file_name

====
